---- MODULE Spec2Model ----
(***************************************************************************)
(* The packed-function calling convention of the Cython FFI layer          *)
(* (packed_func.pxi): argument encoding (make_arg), result decoding        *)
(* (make_ret), the call invoker (FuncCall / FuncCall3), the callback       *)
(* trampoline (tvm_callback), closure creation (convert_to_tvm_func) and   *)
(* finalisation (tvm_callback_finalize).                                   *)
(***************************************************************************)
EXTENDS Integers, Sequences, FiniteSets, TLC

(***************************************************************************)
(* Type codes (TVMArgTypeCode).  The enumeration lives in the C runtime    *)
(* header; packed_func.pxi only names the codes.                           *)
(***************************************************************************)
kInt == 0
kFloat == 2
kTVMOpaqueHandle == 3
kTVMNullptr == 4
kTVMDataType == 5
kDLDevice == 6
kTVMDLTensorHandle == 7
kTVMObjectHandle == 8
kTVMModuleHandle == 9
kTVMPackedFuncHandle == 10
kTVMStr == 11
kTVMBytes == 12
kTVMNDArrayHandle == 13
kTVMObjectRefArg == 14
kTVMArgBool == 15
kTVMExtBegin == 16

(***************************************************************************)
(* Bounds of the model.                                                    *)
(***************************************************************************)
\* longest string / byte buffer drawn as an input
MaxStrLen == 2
\* most arguments of a call
MaxArgs == 4
\* callback closures that can be created
MaxHandles == 1
\* calls foreign code may start in a run (top-level or nested)
MaxCalls == 2
\* PackedFuncBase objects a run may create
MaxObjs == 3
\* start, end and step of an arange call lie in -MaxRange .. MaxRange
MaxRange == 3

(***************************************************************************)
(* Foreign (Python) values.  A value is a record                           *)
(*   isa : the classes isinstance() answers True for                       *)
(*   n, m: numeric payload (an int is m * 2^64 + n; a handle is n; a       *)
(*         device is (n, m); an array handle has m = 1 when it is a view)  *)
(*   s   : sequence payload (code points of a str, bytes of a buffer)      *)
(***************************************************************************)
PyVal(isa, n, m, s) == [isa |-> isa, n |-> n, m |-> m, s |-> s]

PyNone == PyVal({"NoneType"}, 0, 0, <<>>)
PyBool(b) == PyVal({"bool", "Integral", "Number"}, b, 0, <<>>)
PyInt(hi, lo) == PyVal({"Integral", "Number"}, lo, hi, <<>>)
PyFloat(x) == PyVal({"float", "Number"}, x, 0, <<>>)
PyNumber(x) == PyVal({"Number"}, x, 0, <<>>)
PyStr(s) == PyVal({"str", "string_types"}, 0, 0, s)
PyDataType(s) == PyVal({"DataType"}, 0, 0, s)
PyDevice(dt, id) == PyVal({"Device"}, dt, id, <<>>)
PyBytes(s) == PyVal({"bytes"}, 0, 0, s)
PyByteArray(s) == PyVal({"bytearray"}, 0, 0, s)
PyObjectBase(h) == PyVal({"ObjectBase"}, h, 0, <<>>)
PyNDArray(h, view) == PyVal({"NDArrayBase"}, h, view, <<>>)
PyNativeString(h, s) == PyVal({"PyNativeObject", "str", "string_types"}, h, 0, s)
PyCompat(h, code) == PyVal({"_TVM_COMPATS"}, h, code, <<>>)
PyList(s) == PyVal({"list"}, 0, 0, s)
PyModule(h) == PyVal({"_CLASS_MODULE"}, h, 0, <<>>)
PyPackedFunc(h, glob) == PyVal({"PackedFuncBase", "callable"}, h, glob, <<>>)
PyVoidP(h) == PyVal({"c_void_p"}, h, 0, <<>>)
PyRValueRef(h) == PyVal({"ObjectRValueRef"}, h, 0, <<>>)
PyFunction(f) == PyVal({"callable"}, f, 0, <<>>)
PySet == PyVal({"set"}, 0, 0, <<>>)

(***************************************************************************)
(* Tagged values: the member of the TVMValue union that was written and    *)
(* its content.  For v_str and for a byte-array descriptor, s is the       *)
(* content of the storage the pointer refers to.                           *)
(***************************************************************************)
TVMValue(member, n, m, s) == [member |-> member, n |-> n, m |-> m, s |-> s]

\* what a slot of a C array holds before anything is stored in it
Uninit == TVMValue("uninit", 0, 0, <<>>)

\* the null handle, and a zero-initialised slot of a resized vector
Null == TVMValue("v_handle", 0, 0, <<>>)
Zeroed == TVMValue("zero", 0, 0, <<>>)

\* an entry of the keep-alive list temp_args
Temp(kind, n, s) == [kind |-> kind, n |-> n, s |-> s]

(***************************************************************************)
(* c_str / py_str: a str crosses the boundary as its UTF-8 bytes.          *)
(***************************************************************************)
Utf8(cp) == IF cp < 128 THEN <<cp>> ELSE <<192 + (cp \div 64), 128 + (cp % 64)>>

RECURSIVE c_str(_)
c_str(s) == IF s = <<>> THEN <<>> ELSE Utf8(Head(s)) \o c_str(Tail(s))

RECURSIVE py_str(_)
py_str(b) ==
    IF b = <<>> THEN <<>>
    ELSE IF b[1] < 128 THEN <<b[1]>> \o py_str(Tail(b))
    ELSE IF Len(b) < 2 THEN <<65533>>
    ELSE <<(b[1] - 192) * 64 + (b[2] - 128)>> \o py_str(Tail(Tail(b)))

\* _FUNC_CONVERT_TO_OBJECT: the registered container conversion; yields an
\* object of the native object model
ConvertToObject(arg) == PyObjectBase(arg.n)

(***************************************************************************)
(* What the message of an exception names: the values formatted into it.   *)
(***************************************************************************)
NoInfo == [types |-> {}, positions |-> {}, symbols |-> {}, codes |-> {}]

\* the TypeError raised without the type in its message
TypeInfo_Anonymous(arg) == NoInfo

\* "Don't know how to handle type %s" % type(arg)
TypeInfo(arg) == [NoInfo EXCEPT !.types = {arg.isa}]

\* "Unhandled type code %d" % tcode
CodeInfo(tcode) == [NoInfo EXCEPT !.codes = {tcode}]

\* "Cannot find global function %s" % name
SymbolInfo(name) == [NoInfo EXCEPT !.symbols = {name}]

(***************************************************************************)
(* make_arg: the ordered isinstance chain.  wrap is the outcome of         *)
(* convert_to_tvm_func(arg), consulted by the callable branch only.        *)
(* The result carries the exception (exc, "" when none), the stored        *)
(* value and type code, and the keep-alive list.                           *)
(***************************************************************************)
ArgOk(value, tcode, temp_args) ==
    [exc |-> "", value |-> value, tcode |-> tcode, temp_args |-> temp_args,
     names |-> NoInfo]

ArgRaise(exc, temp_args) ==
    [exc |-> exc, value |-> Uninit, tcode |-> -1, temp_args |-> temp_args,
     names |-> NoInfo]

make_arg_bytes(arg, temp_args) ==
    LET copied == "bytes" \in arg.isa
        t1 == IF copied THEN Append(temp_args, Temp("bytearray", 0, arg.s))
                        ELSE temp_args
    IN  ArgOk(TVMValue("v_handle", Len(arg.s), 0, arg.s), kTVMBytes,
              Append(t1, Temp("TVMByteArray", Len(arg.s), arg.s)))

\* the str branch without temp_args.append(tstr)
make_arg_str_NoKeep(s, temp_args) ==
    LET tstr == c_str(s)
    IN  ArgOk(TVMValue("v_str", 0, 0, tstr), kTVMStr, temp_args)

\* tstr = c_str(arg); value[0].v_str = tstr; temp_args.append(tstr)
make_arg_str(s, temp_args) ==
    LET tstr == c_str(s)
    IN  ArgOk(TVMValue("v_str", 0, 0, tstr), kTVMStr,
              Append(temp_args, Temp("tstr", 0, tstr)))

\* make_arg as it would be with the Integral test ahead of the bool test
make_arg_IntegralFirst(arg, temp_args, wrap) ==
    IF "Integral" \in arg.isa THEN
        ArgOk(TVMValue("v_int64", arg.n, 0, <<>>), kInt, temp_args)
    ELSE IF "float" \in arg.isa THEN
        ArgOk(TVMValue("v_float64", arg.n, 0, <<>>), kFloat, temp_args)
    ELSE IF "str" \in arg.isa THEN make_arg_str(arg.s, temp_args)
    ELSE IF "Device" \in arg.isa THEN
        ArgOk(TVMValue("v_device", arg.n, arg.m, <<>>), kDLDevice, temp_args)
    ELSE IF arg.isa \cap {"bytes", "bytearray"} # {} THEN make_arg_bytes(arg, temp_args)
    ELSE ArgOk(TVMValue("v_handle", 0, 0, <<>>), kTVMNullptr, temp_args)

\* make_arg testing callable(arg) before isinstance(arg, PackedFuncBase)
make_arg_CallableFirst(arg, temp_args, wrap) ==
    IF "ObjectBase" \in arg.isa THEN
        ArgOk(TVMValue("v_handle", arg.n, 0, <<>>), kTVMObjectHandle, temp_args)
    ELSE IF "NDArrayBase" \in arg.isa THEN
        ArgOk(TVMValue("v_handle", arg.n, 0, <<>>),
              IF arg.m = 0 THEN kTVMNDArrayHandle ELSE kTVMDLTensorHandle,
              temp_args)
    ELSE IF "PyNativeObject" \in arg.isa THEN
        ArgOk(TVMValue("v_handle", arg.n, 0, <<>>), kTVMObjectHandle, temp_args)
    ELSE IF "_TVM_COMPATS" \in arg.isa THEN
        ArgOk(TVMValue("v_handle", arg.n, 0, <<>>), arg.m, temp_args)
    ELSE IF "bool" \in arg.isa THEN
        ArgOk(TVMValue("v_int64", arg.n, 0, <<>>), kTVMArgBool, temp_args)
    ELSE IF "Integral" \in arg.isa THEN
        IF arg.m # 0 THEN ArgRaise("OverflowError", temp_args)
        ELSE ArgOk(TVMValue("v_int64", arg.n, 0, <<>>), kInt, temp_args)
    ELSE IF "float" \in arg.isa THEN
        ArgOk(TVMValue("v_float64", arg.n, 0, <<>>), kFloat, temp_args)
    ELSE IF "str" \in arg.isa THEN
        make_arg_str(arg.s, temp_args)
    ELSE IF "NoneType" \in arg.isa THEN
        ArgOk(TVMValue("v_handle", 0, 0, <<>>), kTVMNullptr, temp_args)
    ELSE IF "Number" \in arg.isa THEN
        ArgOk(TVMValue("v_float64", arg.n, 0, <<>>), kFloat, temp_args)
    ELSE IF "DataType" \in arg.isa THEN
        make_arg_str(arg.s, temp_args)
    ELSE IF "Device" \in arg.isa THEN
        ArgOk(TVMValue("v_device", arg.n, arg.m, <<>>), kDLDevice, temp_args)
    ELSE IF arg.isa \cap {"bytes", "bytearray"} # {} THEN
        make_arg_bytes(arg, temp_args)
    ELSE IF "string_types" \in arg.isa THEN
        make_arg_str(arg.s, temp_args)
    ELSE IF arg.isa \cap {"list", "tuple", "dict", "_CLASS_OBJECT_GENERIC"} # {} THEN
        LET obj == ConvertToObject(arg)
        IN  ArgOk(TVMValue("v_handle", obj.n, 0, <<>>), kTVMObjectHandle,
                  Append(temp_args, Temp("Object", obj.n, <<>>)))
    ELSE IF "_CLASS_MODULE" \in arg.isa THEN
        ArgOk(TVMValue("v_handle", arg.n, 0, <<>>), kTVMModuleHandle, temp_args)
    ELSE IF "callable" \in arg.isa THEN
        IF wrap.exc # "" THEN ArgRaise(wrap.exc, temp_args)
        ELSE ArgOk(TVMValue("v_handle", wrap.chandle, 0, <<>>), kTVMPackedFuncHandle,
                   Append(temp_args, Temp("PackedFunc", wrap.chandle, <<>>)))
    ELSE IF "PackedFuncBase" \in arg.isa THEN
        ArgOk(TVMValue("v_handle", arg.n, 0, <<>>), kTVMPackedFuncHandle, temp_args)
    ELSE IF "c_void_p" \in arg.isa THEN
        ArgOk(TVMValue("v_handle", arg.n, 0, <<>>), kTVMOpaqueHandle, temp_args)
    ELSE IF "ObjectRValueRef" \in arg.isa THEN
        ArgOk(TVMValue("v_handle", arg.n, 1, <<>>), kTVMObjectRefArg, temp_args)
    ELSE [ArgRaise("TypeError", temp_args) EXCEPT !.names = TypeInfo(arg)]

\* make_arg: the isinstance chain in the order of the source
make_arg(arg, temp_args, wrap) ==
    IF "ObjectBase" \in arg.isa THEN
        ArgOk(TVMValue("v_handle", arg.n, 0, <<>>), kTVMObjectHandle, temp_args)
    ELSE IF "NDArrayBase" \in arg.isa THEN
        ArgOk(TVMValue("v_handle", arg.n, 0, <<>>),
              IF arg.m = 0 THEN kTVMNDArrayHandle ELSE kTVMDLTensorHandle,
              temp_args)
    ELSE IF "PyNativeObject" \in arg.isa THEN
        ArgOk(TVMValue("v_handle", arg.n, 0, <<>>), kTVMObjectHandle, temp_args)
    ELSE IF "_TVM_COMPATS" \in arg.isa THEN
        ArgOk(TVMValue("v_handle", arg.n, 0, <<>>), arg.m, temp_args)
    ELSE IF "bool" \in arg.isa THEN
        ArgOk(TVMValue("v_int64", arg.n, 0, <<>>), kTVMArgBool, temp_args)
    ELSE IF "Integral" \in arg.isa THEN
        IF arg.m # 0 THEN ArgRaise("OverflowError", temp_args)
        ELSE ArgOk(TVMValue("v_int64", arg.n, 0, <<>>), kInt, temp_args)
    ELSE IF "float" \in arg.isa THEN
        ArgOk(TVMValue("v_float64", arg.n, 0, <<>>), kFloat, temp_args)
    ELSE IF "str" \in arg.isa THEN
        make_arg_str(arg.s, temp_args)
    ELSE IF "NoneType" \in arg.isa THEN
        ArgOk(TVMValue("v_handle", 0, 0, <<>>), kTVMNullptr, temp_args)
    ELSE IF "Number" \in arg.isa THEN
        ArgOk(TVMValue("v_float64", arg.n, 0, <<>>), kFloat, temp_args)
    ELSE IF "DataType" \in arg.isa THEN
        make_arg_str(arg.s, temp_args)
    ELSE IF "Device" \in arg.isa THEN
        ArgOk(TVMValue("v_device", arg.n, arg.m, <<>>), kDLDevice, temp_args)
    ELSE IF arg.isa \cap {"bytes", "bytearray"} # {} THEN
        make_arg_bytes(arg, temp_args)
    ELSE IF "string_types" \in arg.isa THEN
        make_arg_str(arg.s, temp_args)
    ELSE IF arg.isa \cap {"list", "tuple", "dict", "_CLASS_OBJECT_GENERIC"} # {} THEN
        LET obj == ConvertToObject(arg)
        IN  ArgOk(TVMValue("v_handle", obj.n, 0, <<>>), kTVMObjectHandle,
                  Append(temp_args, Temp("Object", obj.n, <<>>)))
    ELSE IF "_CLASS_MODULE" \in arg.isa THEN
        ArgOk(TVMValue("v_handle", arg.n, 0, <<>>), kTVMModuleHandle, temp_args)
    ELSE IF "PackedFuncBase" \in arg.isa THEN
        ArgOk(TVMValue("v_handle", arg.n, 0, <<>>), kTVMPackedFuncHandle, temp_args)
    ELSE IF "c_void_p" \in arg.isa THEN
        ArgOk(TVMValue("v_handle", arg.n, 0, <<>>), kTVMOpaqueHandle, temp_args)
    ELSE IF "ObjectRValueRef" \in arg.isa THEN
        ArgOk(TVMValue("v_handle", arg.n, 1, <<>>), kTVMObjectRefArg, temp_args)
    ELSE IF "callable" \in arg.isa THEN
        IF wrap.exc # "" THEN ArgRaise(wrap.exc, temp_args)
        ELSE ArgOk(TVMValue("v_handle", wrap.chandle, 0, <<>>), kTVMPackedFuncHandle,
                   Append(temp_args, Temp("PackedFunc", wrap.chandle, <<>>)))
    ELSE [ArgRaise("TypeError", temp_args) EXCEPT !.names = TypeInfo(arg)]

\* whether make_arg(arg) reaches the branch that calls convert_to_tvm_func
WrapsCallable(arg) ==
    /\ "callable" \in arg.isa
    /\ arg.isa \cap {"ObjectBase", "NDArrayBase", "PyNativeObject", "_TVM_COMPATS",
                     "bool", "Integral", "float", "str", "NoneType", "Number",
                     "DataType", "Device", "bytes", "bytearray", "string_types",
                     "list", "tuple", "dict", "_CLASS_OBJECT_GENERIC",
                     "_CLASS_MODULE", "PackedFuncBase", "c_void_p",
                     "ObjectRValueRef"} = {}

\* the outcome of convert_to_tvm_func when make_arg does not call it
NoWrap == [exc |-> "", chandle |-> 0]

(***************************************************************************)
(* make_ret: dispatch on the type code alone.                              *)
(***************************************************************************)
\* type codes with a decoder registered in _TVM_EXT_RET
ExtRetCodes == {kTVMExtBegin + 1}

\* make_packed_func dropping its is_global argument
make_packed_func_Local(chandle, is_global) == PyPackedFunc(chandle, 0)

\* make_packed_func: the object with its chandle and is_global fields set
make_packed_func(chandle, is_global) ==
    PyPackedFunc(chandle, IF is_global THEN 1 ELSE 0)

RetOk(obj) == [exc |-> "", obj |-> obj, names |-> NoInfo]
RetRaise(exc) == [exc |-> exc, obj |-> PyNone, names |-> NoInfo]

\* make_ret_bytes copying one byte less than arr.size
make_ret_bytes_short(value) == PyByteArray(SubSeq(value.s, 1, value.n - 1))

make_ret_bytes(value) == PyByteArray(SubSeq(value.s, 1, value.n))

\* make_ret with a branch that wraps a tensor view as an owning array
make_ret_TensorOwning(value, tcode) ==
    IF tcode = kTVMObjectHandle THEN RetOk(PyObjectBase(value.n))
    ELSE IF tcode = kTVMNullptr THEN RetOk(PyNone)
    ELSE IF tcode = kTVMArgBool THEN RetOk(PyBool(IF value.n # 0 THEN 1 ELSE 0))
    ELSE IF tcode = kInt THEN RetOk(PyInt(0, value.n))
    ELSE IF tcode = kFloat THEN RetOk(PyFloat(value.n))
    ELSE IF tcode = kTVMNDArrayHandle THEN RetOk(PyNDArray(value.n, 0))
    ELSE IF tcode = kTVMDLTensorHandle THEN RetOk(PyNDArray(value.n, 0))
    ELSE IF tcode = kTVMStr THEN RetOk(PyStr(py_str(value.s)))
    ELSE IF tcode = kTVMBytes THEN RetOk(make_ret_bytes(value))
    ELSE IF tcode = kTVMOpaqueHandle THEN RetOk(PyVoidP(value.n))
    ELSE IF tcode = kDLDevice THEN RetOk(PyDevice(value.n, value.m))
    ELSE IF tcode = kTVMModuleHandle THEN RetOk(PyModule(value.n))
    ELSE IF tcode = kTVMPackedFuncHandle THEN RetOk(make_packed_func(value.n, FALSE))
    ELSE IF tcode \in ExtRetCodes THEN RetOk(PyCompat(value.n, tcode))
    ELSE [RetRaise("ValueError") EXCEPT !.names = CodeInfo(tcode)]

\* make_ret: the chain of tests on tcode; the raise when none applies
make_ret(value, tcode) ==
    IF tcode = kTVMObjectHandle THEN RetOk(PyObjectBase(value.n))
    ELSE IF tcode = kTVMNullptr THEN RetOk(PyNone)
    ELSE IF tcode = kTVMArgBool THEN RetOk(PyBool(IF value.n # 0 THEN 1 ELSE 0))
    ELSE IF tcode = kInt THEN RetOk(PyInt(0, value.n))
    ELSE IF tcode = kFloat THEN RetOk(PyFloat(value.n))
    ELSE IF tcode = kTVMNDArrayHandle THEN RetOk(PyNDArray(value.n, 0))
    ELSE IF tcode = kTVMStr THEN RetOk(PyStr(py_str(value.s)))
    ELSE IF tcode = kTVMBytes THEN RetOk(make_ret_bytes(value))
    ELSE IF tcode = kTVMOpaqueHandle THEN RetOk(PyVoidP(value.n))
    ELSE IF tcode = kDLDevice THEN RetOk(PyDevice(value.n, value.m))
    ELSE IF tcode = kTVMModuleHandle THEN RetOk(PyModule(value.n))
    ELSE IF tcode = kTVMPackedFuncHandle THEN RetOk(make_packed_func(value.n, FALSE))
    ELSE IF tcode \in ExtRetCodes THEN RetOk(PyCompat(value.n, tcode))
    ELSE [RetRaise("ValueError") EXCEPT !.names = CodeInfo(tcode)]

(***************************************************************************)
(* State of the running system.                                            *)
(***************************************************************************)
\* t1 runs foreign code (it makes calls, wraps callables, drops wrappers);
\* t2 is a thread of the native runtime that invokes closures
PyThreads == {"t1"}
NativeThreads == {"t2"}
Threads == PyThreads \cup NativeThreads

VARIABLES
    gil,        \* holder of the foreign serialization lock (the GIL), or "none"
    stack,      \* per thread: its stack of frames, innermost last
    refcnt,     \* reference count of the foreign callable pyfunc
    handles,    \* per closure handle: native references, finalizer runs, invocations
    held,       \* closure handles whose PackedFuncBase wrapper the program holds
    errSlot,    \* per thread: the last-error slot of the native runtime
    budget,     \* calls the run may still start
    wrapped,    \* whether top-level code has wrapped the callable
    failedWraps,\* handle creations that failed inside convert_to_tvm_func
    codec,      \* the encode / decode pipeline run on one argument tuple
    invoked,    \* native threads that have made their invocation
    faults,     \* whether the run includes the rare outcomes: primitives of
                \* the runtime failing, callables returning what is rejected
    wrappers,   \* the PackedFuncBase objects made by make_packed_func, in order
    lookup,     \* what the last _get_global_func call produced
    arange      \* a call of relax.arange whose struct info is inferred

vars == <<gil, stack, refcnt, handles, held, errSlot, budget, wrapped, failedWraps,
          codec, invoked, faults, wrappers, lookup, arange>>

\* the caller's handle slot of a ConstructorCall: whether it was written,
\* and the handle
NoSlot == [set |-> FALSE, v |-> 0]

\* what Python code gets back from a call, or a native caller from the primitive
Result(kind, obj, exc, msg, status) ==
    [kind |-> kind, obj |-> obj, exc |-> exc, msg |-> msg, status |-> status,
     ret_val |-> Null, ret_tcode |-> kTVMNullptr, names |-> NoInfo,
     \* history, not program state
     issued |-> FALSE, prim |-> 0, primMsg |-> "", raisedIn |-> "",
     raised |-> "", cbdiag |-> "", setret |-> 0, produced |-> "",
     rv |-> PyNone, xlat |-> {},
     \* of a ConstructorCall: the expected code and the caller's handle slot
     ctor |-> FALSE, type_code |-> 0, handle |-> NoSlot,
     \* the arguments of the call, how many were packed, the slots written
     args |-> <<>>, i |-> 0, written |-> {}]

NoResult == Result("none", PyNone, "", "", 0)

Frame(fn, pc, h) ==
    [fn |-> fn, pc |-> pc, h |-> h,
     args |-> <<>>, nargs |-> 0, i |-> 0,
     values |-> <<>>, tcodes |-> <<>>, path |-> "",
     temp_args |-> <<>>,
     status |-> 0, ret_val |-> Uninit, ret_tcode |-> kTVMNullptr,
     pyargs |-> <<>>, ensured |-> FALSE, sub |-> NoResult,
     \* history, not program state
     written |-> {}, resized |-> FALSE, issued |-> FALSE, setret |-> 0,
     primN |-> 0, raised |-> "", cbdiag |-> "", diag |-> "",
     \* what the callable produced ("none", "tuple", "value") and the value;
     \* the arguments (of a trampoline) or "ret" (of a call) that went through
     \* the in-place translation
     produced |-> "", rv |-> PyNone, xlat |-> {},
     \* ConstructorCall: whether the frame is one, and the expected code
     ctor |-> FALSE, type_code |-> 0]

Depth(t) == Len(stack[t])
Top(t) == stack[t][Len(stack[t])]
Below(t) == stack[t][Len(stack[t]) - 1]
Push(t, f) == [stack EXCEPT ![t] = Append(@, f)]
SetTop(t, f) == [stack EXCEPT ![t] = [@ EXCEPT ![Len(@)] = f]]
PopLast(t) == [stack EXCEPT ![t] = SubSeq(@, 1, Len(@) - 1)]
PopInto(t, g) == [stack EXCEPT ![t] = Append(SubSeq(@, 1, Len(@) - 2), g)]
PushOver(t, g, f) == [stack EXCEPT ![t] = Append(Append(SubSeq(@, 1, Len(@) - 1), g), f)]

IsTop(t, fn, pc) == Depth(t) > 0 /\ Top(t).fn = fn /\ Top(t).pc = pc

(***************************************************************************)
(* The native runtime as this layer sees it: the functions of the global   *)
(* registry, closure handles, the free primitive and the error slot.       *)
(***************************************************************************)
\* handles of registry functions (closure handles are 1..MaxHandles)
hEcho == -1
hSum == -2
hFail == -3
hApply == -4

HandleIds == 1 .. MaxHandles

NoError == [kind |-> "none", msg |-> ""]
\* TVMAPISetLastError / TVMAPISetLastPythonError
TVMAPISetLastError(msg) == [kind |-> "native", msg |-> msg]
TVMAPISetLastPythonError(err) == [kind |-> "python", msg |-> err]

\* CHECK_CALL: the exception raised for a non-zero status ("" for status 0)
CHECK_CALL(status, slot) ==
    IF status = 0 THEN [exc |-> "", msg |-> ""]
    ELSE [exc |-> IF slot.kind = "python" THEN "PythonError" ELSE "TVMError",
          msg |-> slot.msg]


\* echo: returns its last argument unchanged (null without arguments)
EchoRet(values, tcodes, nargs) ==
    IF nargs = 0 THEN [value |-> Null, tcode |-> kTVMNullptr]
    ELSE [value |-> values[nargs - 1], tcode |-> tcodes[nargs - 1]]

\* sum: the sum of its integer arguments, tagged Int
RECURSIVE SumOf(_, _)
SumOf(values, n) == IF n = 0 THEN 0 ELSE values[n - 1].n + SumOf(values, n - 1)

SumRet(values, nargs) ==
    [value |-> TVMValue("v_int64", SumOf(values, nargs), 0, <<>>), tcode |-> kInt]

\* the finalizer without its Py_DECREF
tvm_callback_finalize_NoDecref(rc) ==
    LET local_pyfunc == rc + 1
    IN  local_pyfunc - 1

\* The finalizer: the local reference to the callable, the Py_DECREF of the
\* reference the closure owns, and the release of the local on return.
tvm_callback_finalize(rc) ==
    LET local_pyfunc == rc + 1
        decref == local_pyfunc - 1
    IN  decref - 1

\* TVMFuncFree by a thread that holds the lock: a no-op on a function of the
\* registry; on a closure handle it drops one native reference, and the last
\* one runs the finalizer.
TVMFuncFree(hs, rc, h) ==
    IF h \notin HandleIds THEN [handles |-> hs, refcnt |-> rc]
    ELSE IF hs[h].refs = 1
    THEN [handles |-> [hs EXCEPT ![h].refs = 0, ![h].fin = @ + 1],
          refcnt |-> tvm_callback_finalize(rc)]
    ELSE [handles |-> [hs EXCEPT ![h].refs = @ - 1], refcnt |-> rc]

\* PackedFuncBase.__dealloc__; freed lists the handles it passes to the
\* free primitive
PackedFuncDealloc(hs, rc, h, is_global) ==
    IF is_global = 0
    THEN LET r == TVMFuncFree(hs, rc, h)
         IN  [handles |-> r.handles, refcnt |-> r.refcnt, freed |-> <<h>>]
    ELSE [handles |-> hs, refcnt |-> rc, freed |-> <<>>]

\* dropping the keep-alive list destroys the wrappers it alone holds
RECURSIVE ReleaseTemps(_, _, _)
ReleaseTemps(temp_args, hs, rc) ==
    IF temp_args = <<>> THEN [handles |-> hs, refcnt |-> rc]
    ELSE LET x == Head(temp_args)
             r == IF x.kind = "PackedFunc" THEN PackedFuncDealloc(hs, rc, x.n, 0)
                  ELSE [handles |-> hs, refcnt |-> rc]
         IN  ReleaseTemps(Tail(temp_args), r.handles, r.refcnt)

FreeIds(hs) == {h \in HandleIds : ~hs[h].created}
NewId(hs) == CHOOSE h \in FreeIds(hs) : \A g \in FreeIds(hs) : h <= g

\* convert_to_tvm_func; creates says whether TVMFuncCreateFromCFunc succeeds
convert_to_tvm_func(rc, hs, creates) ==
    LET incref == rc + 1
    IN  IF creates
        THEN [exc |-> "", chandle |-> NewId(hs), refcnt |-> incref,
              handles |-> [hs EXCEPT ![NewId(hs)] =
                              [created |-> TRUE, refs |-> 1, fin |-> 0, inv |-> 0]]]
        ELSE [exc |-> "TVMError", chandle |-> 0, refcnt |-> incref, handles |-> hs]

\* the outcomes TVMFuncCreateFromCFunc can have: it fails when no handle is
\* left to give out
CreateOutcomes(hs) ==
    IF FreeIds(hs) = {} THEN {FALSE}
    ELSE IF faults THEN BOOLEAN
    ELSE {TRUE}

\* whether TVMCbArgToReturn / TVMCFuncSetReturn report success
PrimitiveOutcomes == IF faults THEN BOOLEAN ELSE {TRUE}

(***************************************************************************)
(* PackedFuncBase objects and the global registry.                        *)
(***************************************************************************)
\* a PackedFuncBase object: its fields (obj), where it came from, whether it
\* still exists, and how often its __dealloc__ called the free primitive
Wrapper(obj, origin) == [obj |-> obj, origin |-> origin, alive |-> TRUE, frees |-> 0]

\* the registry of the native runtime: name -> handle
Registry == ("echo" :> hEcho) @@ ("sum" :> hSum) @@ ("fail" :> hFail) @@ ("apply" :> hApply)

\* TVMFuncGetGlobal(name, &chandle): NULL for a name that is not registered
TVMFuncGetGlobal(name) == IF name \in DOMAIN Registry THEN Registry[name] ELSE 0

\* what a _get_global_func call produced
LookupResult(kind, name, allow_missing, obj, exc, names) ==
    [kind |-> kind, name |-> name, allow_missing |-> allow_missing, obj |-> obj,
     exc |-> exc, names |-> names]

\* no _get_global_func call has been made
NoLookup == LookupResult("", "", FALSE, PyNone, "", NoInfo)

\* _get_global_func raising for a missing name whatever allow_missing says
_get_global_func_Strict(name, allow_missing, status) ==
    LET chandle == TVMFuncGetGlobal(name)
    IN  IF status # 0
        THEN LookupResult("raised", name, allow_missing, PyNone, "TVMError", NoInfo)
        ELSE IF chandle # 0
        THEN LookupResult("wrapper", name, allow_missing,
                          make_packed_func(chandle, TRUE), "", NoInfo)
        ELSE LookupResult("raised", name, allow_missing, PyNone, "ValueError",
                          SymbolInfo(name))

\* _get_global_func(name, allow_missing); status is what TVMFuncGetGlobal
\* returns
_get_global_func(name, allow_missing, status) ==
    LET chandle == TVMFuncGetGlobal(name)
    IN  IF status # 0
        THEN LookupResult("raised", name, allow_missing, PyNone, "TVMError", NoInfo)
        ELSE IF chandle # 0
        THEN LookupResult("wrapper", name, allow_missing,
                          make_packed_func(chandle, TRUE), "", NoInfo)
        ELSE IF allow_missing
        THEN LookupResult("None", name, allow_missing, PyNone, "", NoInfo)
        ELSE LookupResult("raised", name, allow_missing, PyNone, "ValueError",
                          SymbolInfo(name))

\* the objects that still exist
LiveWrappers == {i \in 1 .. Len(wrappers) : wrappers[i].alive}

(***************************************************************************)
(* Inputs: the calls foreign code makes and the raw argument arrays        *)
(* native threads pass to a closure.                                       *)
(***************************************************************************)
IntTuple(n) == [j \in 1 .. n |-> PyInt(0, j)]

\* (Int 5, Str "hi", Bool true)
EchoScenario == <<PyInt(0, 5), PyStr(<<104, 105>>), PyBool(1)>>

Call(h, args) == [h |-> h, args |-> args]

\* the calls of the running system: registry functions and held closures
GlobalCalls ==
    { Call(hEcho, <<PyInt(0, 5)>>),
      Call(hFail, IntTuple(1)),
      Call(hApply, <<PyFunction(1)>>) }

ClosureCalls == {Call(h, args) : h \in held, args \in {<<>>, IntTuple(1)}}

Calls == GlobalCalls \cup ClosureCalls

\* argument tuples of every length up to MaxArgs, with values that encode
\* and values that do not
ArgTuples ==
    {IntTuple(n) : n \in 0 .. MaxArgs}
    \cup {[j \in 1 .. n |-> IF j = k THEN PySet ELSE PyInt(0, j)] :
             n \in 1 .. MaxArgs, k \in 1 .. MaxArgs}
    \cup {EchoScenario, <<PyInt(1, 0)>>, <<PyStr(<<104>>), PyBytes(<<0>>), PyNone, PyFloat(2)>>}
    \* handles of every kind, which echo returns as they were passed
    \cup {<<PyObjectBase(9)>>, <<PyModule(8)>>, <<PyNDArray(9, 0)>>, <<PyNDArray(9, 1)>>,
          <<PyRValueRef(9)>>, <<PyPackedFunc(hEcho, 1)>>, <<PyDevice(1, 0)>>}
    \* handles that are also of a generic kind, and a plain callable
    \cup {<<PyVal({"ObjectBase", "list"}, 9, 0, <<>>)>>,
          <<PyVal({"ObjectBase", "callable"}, 9, 0, <<>>)>>,
          <<PyVal({"NDArrayBase", "dict"}, 9, 0, <<>>)>>,
          <<PyNativeString(9, <<104>>)>>,
          <<PyPackedFunc(hSum, 1), PyFunction(1)>>}

\* the calls of the invoker on its own: registry functions on such tuples
InvokerCalls == {Call(h, args) : h \in {hEcho, hSum, hFail}, args \in ArgTuples}

\* the names foreign code looks up: registered ones and one that is not
LookupNames == {"echo", "fail", "nope"}

\* the calls through the objects the program holds: a closure is called
\* without arguments and with one, a registry function also with one of the
\* objects
WrapperCalls ==
    {Call(wrappers[i].obj.n, <<>>) : i \in LiveWrappers}
    \cup {Call(wrappers[i].obj.n, IntTuple(1)) :
             i \in {k \in LiveWrappers : wrappers[k].obj.n \in HandleIds}}
    \cup {Call(wrappers[i].obj.n, <<wrappers[j].obj>>) :
             i \in {k \in LiveWrappers : wrappers[k].obj.n \notin HandleIds
                                         /\ Len(wrappers) < MaxObjs},
             j \in LiveWrappers}

Raw(value, tcode) == [value |-> value, tcode |-> tcode]

RawArgs ==
    { <<>>,
      <<Raw(TVMValue("v_int64", 7, 0, <<>>), kInt)>>,
      <<Raw(TVMValue("v_handle", 9, 0, <<>>), kTVMObjectHandle)>> }
    \cup (IF faults
          THEN { <<Raw(TVMValue("v_handle", 9, 0, <<>>), kTVMDLTensorHandle)>>,
                 <<Raw(TVMValue("v_type", 0, 0, <<>>), kTVMDataType)>> }
          ELSE {})

\* raw argument arrays with a value of every type code, and pairs that put
\* a handle after and before a plain value
RawValues ==
    { Raw(TVMValue("v_int64", 7, 0, <<>>), kInt),
      Raw(TVMValue("v_float64", 2, 0, <<>>), kFloat),
      Raw(TVMValue("v_int64", 1, 0, <<>>), kTVMArgBool),
      Raw(Null, kTVMNullptr),
      Raw(TVMValue("v_str", 0, 0, <<104, 105>>), kTVMStr),
      Raw(TVMValue("v_handle", 2, 0, <<0, 200>>), kTVMBytes),
      Raw(TVMValue("v_device", 1, 0, <<>>), kDLDevice),
      Raw(TVMValue("v_handle", 9, 0, <<>>), kTVMOpaqueHandle),
      Raw(TVMValue("v_handle", 9, 0, <<>>), kTVMDLTensorHandle),
      Raw(TVMValue("v_handle", 9, 0, <<>>), kTVMObjectHandle),
      Raw(TVMValue("v_handle", hEcho, 0, <<>>), kTVMPackedFuncHandle),
      Raw(TVMValue("v_handle", 9, 0, <<>>), kTVMModuleHandle),
      Raw(TVMValue("v_handle", 9, 0, <<>>), kTVMNDArrayHandle),
      Raw(TVMValue("v_handle", 9, 1, <<>>), kTVMObjectRefArg),
      Raw(TVMValue("v_handle", 9, 0, <<>>), kTVMExtBegin + 1),
      Raw(TVMValue("v_handle", 9, 0, <<>>), kTVMExtBegin + 2),
      Raw(TVMValue("v_type", 0, 0, <<>>), kTVMDataType) }

TrampolineArgs ==
    {<<>>} \cup {<<r>> : r \in RawValues}
    \cup { <<Raw(TVMValue("v_int64", 7, 0, <<>>), kInt),
              Raw(TVMValue("v_handle", 9, 1, <<>>), kTVMObjectRefArg)>>,
           <<Raw(TVMValue("v_handle", 9, 0, <<>>), kTVMNDArrayHandle),
              Raw(TVMValue("v_handle", 9, 0, <<>>), kTVMDLTensorHandle)>> }

\* what the foreign callable returns when it returns a single value
RetVals ==
    {PyInt(0, 3)} \cup (IF faults THEN {PyStr(<<104, 105>>), PySet} ELSE {})

\* the diagnostic of a failure raised by the callable on thread t
Diag(t) == IF t = "t1" THEN "Traceback: boom in t1" ELSE "Traceback: boom in t2"

NativeMsg == "native failure"
CreateMsg == "handle creation failed"

(***************************************************************************)
(* FuncCall / FuncCall3 / PackedFuncBase.__call__                          *)
(***************************************************************************)
Max(a, b) == IF a >= b THEN a ELSE b

\* FuncCall3 entering the nogil block before the packing loop
FuncCall3_NoPack(chandle, args) ==
    [Frame("call", "nogil", chandle) EXCEPT
        !.args = args, !.nargs = Len(args), !.path = "FuncCall3",
        !.values = [j \in 0 .. 2 |-> Uninit],
        !.tcodes = [j \in 0 .. 2 |-> -1]]

\* FuncCall3: the two fixed arrays of three slots
FuncCall3(chandle, args) ==
    [Frame("call", IF Len(args) = 0 THEN "nogil" ELSE "pack", chandle) EXCEPT
        !.args = args, !.nargs = Len(args), !.path = "FuncCall3",
        !.values = [j \in 0 .. 2 |-> Uninit],
        !.tcodes = [j \in 0 .. 2 |-> -1]]

\* FuncCall taking the fixed arrays for one argument too many
FuncCall_Threshold4(chandle, args) ==
    LET nargs == Len(args)
    IN  IF nargs <= 4 THEN FuncCall3(chandle, args)
        ELSE [Frame("call", "pack", chandle) EXCEPT
                !.args = args, !.nargs = nargs, !.path = "FuncCall",
                !.resized = TRUE,
                !.values = [j \in 0 .. Max(nargs, 1) - 1 |-> Zeroed],
                !.tcodes = [j \in 0 .. Max(nargs, 1) - 1 |-> 0]]

\* FuncCall: the path is chosen by the argument count
FuncCall(chandle, args) ==
    LET nargs == Len(args)
    IN  IF nargs <= 3 THEN FuncCall3(chandle, args)
        ELSE [Frame("call", "pack", chandle) EXCEPT
                !.args = args, !.nargs = nargs, !.path = "FuncCall",
                !.resized = TRUE,
                !.values = [j \in 0 .. Max(nargs, 1) - 1 |-> Zeroed],
                !.tcodes = [j \in 0 .. Max(nargs, 1) - 1 |-> 0]]

\* what a finished call hands to the Python code that made it
CallResult(f, kind, obj, exc, msg, where) ==
    [Result(kind, obj, exc, msg, f.status) EXCEPT
        !.issued = f.issued, !.prim = f.status, !.primMsg = f.diag,
        !.raisedIn = where, !.raised = f.raised, !.cbdiag = f.cbdiag,
        !.setret = f.setret, !.produced = f.produced, !.rv = f.rv,
        !.xlat = f.xlat, !.ret_val = f.ret_val, !.ret_tcode = f.ret_tcode,
        !.ctor = f.ctor, !.type_code = f.type_code,
        !.args = f.args, !.i = f.i, !.written = f.written]

\* a finished top-level operation and what it produced
Done(pc, h, res) == [Frame("done", pc, h) EXCEPT !.sub = res]

\* The Python code that made the call gets its result: the callable of an
\* enclosing trampoline, or top-level code, which then gives up the lock.
PyDeliver(t, res) ==
    IF Depth(t) = 1
    THEN /\ stack' = SetTop(t, Done("done", Top(t).h, res))
         /\ gil' = "none"
    ELSE /\ stack' = PopInto(t, [Below(t) EXCEPT !.sub = res])
         /\ gil' = gil

\* Top-level foreign code on thread t calls a function handle: f(*args)
PyCall(t, menu) ==
    /\ t \in PyThreads
    /\ Depth(t) = 0
    /\ gil = "none"
    /\ budget > 0
    /\ \E c \in menu :
          stack' = Push(t, FuncCall(c.h, c.args))
    /\ gil' = t
    /\ budget' = budget - 1
    /\ UNCHANGED <<refcnt, handles, held, errSlot, wrapped, failedWraps, codec, invoked, faults, wrappers, lookup, arange>>

PyCallStart(t) == PyCall(t, Calls)

\* the same with the argument tuples of the invoker on its own
PyCallArgs(t) == PyCall(t, InvokerCalls)

\* the same through the objects the program holds
PyCallWrapper(t) == PyCall(t, WrapperCalls)

\* The packing loop: one make_arg per step.
PackArg(t) ==
    /\ IsTop(t, "call", "pack")
    /\ LET f == Top(t)
           arg == f.args[f.i + 1]
       IN  \E creates \in (IF WrapsCallable(arg) THEN CreateOutcomes(handles) ELSE {TRUE}) :
             LET w == IF WrapsCallable(arg)
                      THEN convert_to_tvm_func(refcnt, handles, creates)
                      ELSE [exc |-> "", chandle |-> 0, refcnt |-> refcnt,
                            handles |-> handles]
                 r == make_arg(arg, f.temp_args, w)
             IN  /\ failedWraps' = IF w.exc # "" THEN failedWraps + 1 ELSE failedWraps
                 /\ IF r.exc = ""
                    THEN /\ stack' = SetTop(t, [f EXCEPT
                                !.values[f.i] = r.value,
                                !.tcodes[f.i] = r.tcode,
                                !.temp_args = r.temp_args,
                                !.written = @ \cup {f.i},
                                !.i = f.i + 1,
                                !.pc = IF f.i + 1 = f.nargs THEN "nogil" ELSE "pack"])
                         /\ refcnt' = w.refcnt
                         /\ handles' = w.handles
                         /\ gil' = gil
                    ELSE LET rel == ReleaseTemps(r.temp_args, w.handles, w.refcnt)
                         IN  /\ refcnt' = rel.refcnt
                             /\ handles' = rel.handles
                             /\ PyDeliver(t, [CallResult(f, "raised", PyNone, r.exc,
                                    IF w.exc # "" THEN CreateMsg ELSE "", "make_arg")
                                    EXCEPT !.names = r.names])
                 /\ errSlot' = IF w.exc # ""
                               THEN [errSlot EXCEPT ![t] = TVMAPISetLastError(CreateMsg)]
                               ELSE errSlot
    /\ UNCHANGED <<held, budget, wrapped, codec, invoked, faults, wrappers, lookup, arange>>

\* the primitive entered with the lock still held
Nogil_Keep(t) ==
    /\ IsTop(t, "call", "nogil")
    /\ gil' = gil
    /\ stack' = SetTop(t, [Top(t) EXCEPT !.pc = "TVMFuncCall"])
    /\ UNCHANGED <<refcnt, handles, held, errSlot, budget, wrapped, failedWraps, codec, invoked, faults, wrappers, lookup, arange>>

\* with nogil: the lock is given up before the primitive is entered
Nogil(t) ==
    /\ IsTop(t, "call", "nogil")
    /\ gil' = "none"
    /\ stack' = SetTop(t, [Top(t) EXCEPT !.pc = "TVMFuncCall"])
    /\ UNCHANGED <<refcnt, handles, held, errSlot, budget, wrapped, failedWraps, codec, invoked, faults, wrappers, lookup, arange>>

\* TVMFuncCall(chandle, &values[0], &tcodes[0], nargs, ret_val, ret_tcode)
TVMFuncCall(t) ==
    /\ IsTop(t, "call", "TVMFuncCall")
    /\ LET f == Top(t)
       IN  stack' = PushOver(t,
                [f EXCEPT !.pc = "wait", !.issued = TRUE, !.primN = f.nargs],
                [Frame("native", "body", f.h) EXCEPT
                    !.values = f.values, !.tcodes = f.tcodes, !.nargs = f.nargs])
    /\ UNCHANGED <<gil, refcnt, handles, held, errSlot, budget, wrapped, failedWraps, codec, invoked, faults, wrappers, lookup, arange>>

\* the end of the nogil block: the lock is taken back
Regil(t) ==
    /\ IsTop(t, "call", "gil")
    /\ gil = "none"
    /\ gil' = t
    /\ stack' = SetTop(t, [Top(t) EXCEPT !.pc = "CHECK_CALL"])
    /\ UNCHANGED <<refcnt, handles, held, errSlot, budget, wrapped, failedWraps, codec, invoked, faults, wrappers, lookup, arange>>

\* the invoker returning 0 whatever the status of the primitive
CheckCall_Ignore(t) ==
    /\ IsTop(t, "call", "CHECK_CALL")
    /\ LET f == Top(t)
           rel == ReleaseTemps(f.temp_args, handles, refcnt)
       IN  /\ refcnt' = rel.refcnt
           /\ handles' = rel.handles
           /\ stack' = SetTop(t, [f EXCEPT !.pc = "make_ret", !.temp_args = <<>>])
           /\ gil' = gil
    /\ UNCHANGED <<held, errSlot, budget, wrapped, failedWraps, codec, invoked, faults, wrappers, lookup, arange>>

\* CHECK_CALL(c_api_ret_code); return 0.  The keep-alive list dies with the
\* invoker's frame on either path.
CheckCall(t) ==
    /\ IsTop(t, "call", "CHECK_CALL")
    /\ LET f == Top(t)
           e == CHECK_CALL(f.status, errSlot[t])
           rel == ReleaseTemps(f.temp_args, handles, refcnt)
       IN  /\ refcnt' = rel.refcnt
           /\ handles' = rel.handles
           /\ IF e.exc # ""
              THEN PyDeliver(t, CallResult(f, "raised", PyNone, e.exc, e.msg, "CHECK_CALL"))
              ELSE /\ stack' = SetTop(t, [f EXCEPT !.pc = "make_ret", !.temp_args = <<>>])
                   /\ gil' = gil
    /\ UNCHANGED <<held, errSlot, budget, wrapped, failedWraps, codec, invoked, faults, wrappers, lookup, arange>>

\* the test without the reference-slot code
IsHandleCode_NoRefArg(tcode) ==
    \/ tcode = kTVMObjectHandle
    \/ tcode = kTVMPackedFuncHandle
    \/ tcode = kTVMModuleHandle
    \/ tcode = kTVMNDArrayHandle
    \/ tcode >= kTVMExtBegin

IsHandleCode(tcode) ==
    \/ tcode = kTVMObjectHandle
    \/ tcode = kTVMPackedFuncHandle
    \/ tcode = kTVMModuleHandle
    \/ tcode = kTVMNDArrayHandle
    \/ tcode = kTVMObjectRefArg
    \/ tcode >= kTVMExtBegin

\* TVMCbArgToReturn: in-place translation of a callback argument to a return
\* value; a reference-slot argument becomes the object it refers to
TVMCbArgToReturn(value, tcode) ==
    IF tcode = kTVMObjectRefArg
    THEN [value |-> TVMValue("v_handle", value.n, 0, <<>>), tcode |-> kTVMObjectHandle]
    ELSE [value |-> value, tcode |-> tcode]

\* __call__ passing a handle result through TVMCbArgToReturn before make_ret
MakeRet_Translate(t) ==
    /\ IsTop(t, "call", "make_ret")
    /\ ~Top(t).ctor
    /\ LET f == Top(t)
           a == IF IsHandleCode(f.ret_tcode)
                THEN TVMCbArgToReturn(f.ret_val, f.ret_tcode)
                ELSE [value |-> f.ret_val, tcode |-> f.ret_tcode]
           x == IF IsHandleCode(f.ret_tcode) THEN {0} ELSE {}
           r == make_ret(a.value, a.tcode)
       IN  /\ IF r.exc # ""
              THEN PyDeliver(t, [CallResult(f, "raised", PyNone, r.exc, "", "make_ret")
                                    EXCEPT !.names = r.names, !.xlat = x])
              ELSE PyDeliver(t, [CallResult(f, "returned", r.obj, "", "", "")
                                    EXCEPT !.xlat = x])
           /\ wrappers' = IF r.exc = "" /\ "PackedFuncBase" \in r.obj.isa
                          THEN Append(wrappers, Wrapper(r.obj, "decoded"))
                          ELSE wrappers
    /\ UNCHANGED <<refcnt, handles, held, errSlot, budget, wrapped, failedWraps, codec, invoked, faults, lookup, arange>>

\* return make_ret(ret_val, ret_tcode)
MakeRet(t) ==
    /\ IsTop(t, "call", "make_ret")
    /\ ~Top(t).ctor
    /\ LET f == Top(t)
           r == make_ret(f.ret_val, f.ret_tcode)
       IN  /\ IF r.exc # ""
              THEN PyDeliver(t, [CallResult(f, "raised", PyNone, r.exc, "", "make_ret")
                                    EXCEPT !.names = r.names])
              ELSE PyDeliver(t, CallResult(f, "returned", r.obj, "", "", ""))
           /\ wrappers' = IF r.exc = "" /\ "PackedFuncBase" \in r.obj.isa
                          THEN Append(wrappers, Wrapper(r.obj, "decoded"))
                          ELSE wrappers
    /\ UNCHANGED <<refcnt, handles, held, errSlot, budget, wrapped, failedWraps, codec, invoked, faults, lookup, arange>>

(***************************************************************************)
(* ConstructorCall                                                         *)
(***************************************************************************)
\* ConstructorCall(constructor_handle, type_code, args, handle): FuncCall
\* with the expected code at hand
ConstructorCall(constructor_handle, type_code, args) ==
    [FuncCall(constructor_handle, args) EXCEPT !.ctor = TRUE, !.type_code = type_code]

\* whether the assert statement is executed: assertions are compiled out
\* with CYTHON_WITHOUT_ASSERTIONS and skipped when the interpreter runs
\* optimized
AssertOutcomes == BOOLEAN

\* the constructors called and the codes expected of them
ConstructorCalls ==
    {[h |-> hEcho, args |-> a, type_code |-> c] :
        a \in {<<>>, <<PyObjectBase(9)>>, <<PyInt(0, 5)>>, <<PyModule(8)>>},
        c \in {kTVMObjectHandle, kTVMModuleHandle}}
    \cup {[h |-> hSum, args |-> IntTuple(4), type_code |-> kTVMObjectHandle],
          [h |-> hFail, args |-> <<>>, type_code |-> kTVMObjectHandle]}

\* top-level foreign code builds an object through its constructor function
PyConstruct(t) ==
    /\ t \in PyThreads
    /\ Depth(t) = 0
    /\ gil = "none"
    /\ budget > 0
    /\ \E c \in ConstructorCalls :
          stack' = Push(t, ConstructorCall(c.h, c.type_code, c.args))
    /\ gil' = t
    /\ budget' = budget - 1
    /\ UNCHANGED <<refcnt, handles, held, errSlot, wrapped, failedWraps, codec, invoked, faults, wrappers, lookup, arange>>

\* assert ret_tcode == type_code; handle[0] = ret_val.v_handle; return 0
ConstructorAssert(t) ==
    /\ IsTop(t, "call", "make_ret")
    /\ Top(t).ctor
    /\ LET f == Top(t)
       IN  \E executed \in AssertOutcomes :
             IF executed /\ f.ret_tcode # f.type_code
             THEN PyDeliver(t, CallResult(f, "raised", PyNone, "AssertionError", "",
                                          "assert"))
             ELSE PyDeliver(t, [CallResult(f, "returned", PyNone, "", "", "")
                                   EXCEPT !.handle = [set |-> TRUE, v |-> f.ret_val.n]])
    /\ UNCHANGED <<refcnt, handles, held, errSlot, budget, wrapped, failedWraps, codec, invoked, faults, wrappers, lookup, arange>>

(***************************************************************************)
(* Native function bodies.                                                 *)
(***************************************************************************)
\* a registry function runs and stores its result and status
NativeGlobal(t) ==
    /\ IsTop(t, "native", "body")
    /\ Top(t).h \in {hEcho, hSum, hFail}
    /\ LET f == Top(t)
           r == IF f.h = hEcho THEN EchoRet(f.values, f.tcodes, f.nargs)
                ELSE SumRet(f.values, f.nargs)
       IN  IF f.h = hFail
           THEN /\ errSlot' = [errSlot EXCEPT ![t] = TVMAPISetLastError(NativeMsg)]
                /\ stack' = SetTop(t, [f EXCEPT !.pc = "ret", !.status = -1])
                /\ handles' = handles
           ELSE /\ errSlot' = errSlot
                /\ stack' = SetTop(t, [f EXCEPT !.pc = "ret", !.status = 0,
                                          !.ret_val = r.value, !.ret_tcode = r.tcode])
                \* a function returned by value carries a reference of its own
                /\ handles' = IF r.tcode = kTVMPackedFuncHandle /\ r.value.n \in HandleIds
                              THEN [handles EXCEPT ![r.value.n].refs = @ + 1]
                              ELSE handles
    /\ UNCHANGED <<gil, refcnt, held, budget, wrapped, failedWraps, codec, invoked, faults, wrappers, lookup, arange>>

\* The PackedFunc made by TVMFuncCreateFromCFunc calls the trampoline with the
\* arguments it was given; apply calls its first argument with the rest.
NativeLambda(t) ==
    /\ IsTop(t, "native", "body")
    /\ Top(t).h \notin {hEcho, hSum, hFail}
    /\ LET f == Top(t)
           viaApply == f.h = hApply
           n == IF viaApply THEN f.nargs - 1 ELSE f.nargs
           off == IF viaApply THEN 1 ELSE 0
       IN  stack' = PushOver(t, [f EXCEPT !.pc = "wait"],
                [Frame("tvm_callback", "ensure",
                       IF viaApply THEN f.values[0].n ELSE f.h) EXCEPT
                    !.values = [j \in 0 .. n - 1 |-> f.values[j + off]],
                    !.tcodes = [j \in 0 .. n - 1 |-> f.tcodes[j + off]],
                    !.nargs = n,
                    !.ret_val = Null, !.ret_tcode = kTVMNullptr])
    /\ UNCHANGED <<gil, refcnt, handles, held, errSlot, budget, wrapped, failedWraps, codec, invoked, faults, wrappers, lookup, arange>>

\* the primitive returns to the invoker that issued it
NativeReturn(t) ==
    /\ IsTop(t, "native", "ret")
    /\ Depth(t) > 1
    /\ LET f == Top(t)
       IN  stack' = PopInto(t, [Below(t) EXCEPT
                !.pc = "gil", !.status = f.status,
                !.ret_val = f.ret_val, !.ret_tcode = f.ret_tcode,
                !.diag = IF f.status # 0 THEN errSlot[t].msg ELSE "",
                !.raised = f.raised, !.cbdiag = f.cbdiag, !.setret = f.setret,
                !.produced = f.produced, !.rv = f.rv])
    /\ UNCHANGED <<gil, refcnt, handles, held, errSlot, budget, wrapped, failedWraps, codec, invoked, faults, wrappers, lookup, arange>>

(***************************************************************************)
(* tvm_callback: the trampoline.  The function is cdef ... with gil and    *)
(* declares no exception value: what becomes of an exception that leaves   *)
(* its body depends on the build (UnraisableStatus).                       *)
(***************************************************************************)
\* the status the caller sees when an exception leaves the body: 0 when the
\* build writes it out as unraisable (cdef functions noexcept by default),
\* -1 when the build propagates it (except? -1 by default); nothing is put
\* in the error slot either way
UnraisableStatus == {0, -1}

\* c_make_array(handle, is_view, is_container)
c_make_array(handle, is_view) == PyNDArray(handle, IF is_view THEN 1 ELSE 0)

\* the trampoline entered without taking the lock
TrampolineEnsure_NoLock(t) ==
    /\ IsTop(t, "tvm_callback", "ensure")
    /\ gil' = gil
    /\ refcnt' = refcnt + 1
    /\ handles' = [handles EXCEPT ![Top(t).h].inv = @ + 1]
    /\ stack' = SetTop(t, [Top(t) EXCEPT
            !.pc = IF Top(t).nargs = 0 THEN "call" ELSE "args"])
    /\ UNCHANGED <<held, errSlot, budget, wrapped, failedWraps, codec, invoked, faults, wrappers, lookup, arange>>

\* PyGILState_Ensure, then the local reference to the callable
TrampolineEnsure(t) ==
    /\ IsTop(t, "tvm_callback", "ensure")
    /\ gil \in {"none", t}
    /\ gil' = t
    /\ refcnt' = refcnt + 1
    /\ handles' = [handles EXCEPT ![Top(t).h].inv = @ + 1]
    /\ stack' = SetTop(t, [Top(t) EXCEPT
            !.ensured = (gil = "none"),
            !.pc = IF Top(t).nargs = 0 THEN "call" ELSE "args"])
    /\ UNCHANGED <<held, errSlot, budget, wrapped, failedWraps, codec, invoked, faults, wrappers, lookup, arange>>

\* the argument loop decoding a tensor view as an owning array
TrampolineArg_OwnView(t) ==
    /\ IsTop(t, "tvm_callback", "args")
    /\ LET f == Top(t)
           translate == IsHandleCode(f.tcodes[f.i])
       IN  \E translated \in (IF translate THEN PrimitiveOutcomes ELSE {TRUE}),
              st \in UnraisableStatus :
             LET a == IF translate THEN TVMCbArgToReturn(f.values[f.i], f.tcodes[f.i])
                      ELSE [value |-> f.values[f.i], tcode |-> f.tcodes[f.i]]
                 r == IF a.tcode # kTVMDLTensorHandle THEN make_ret(a.value, a.tcode)
                      ELSE RetOk(c_make_array(a.value.n, FALSE))
             IN  IF ~translated
                 THEN stack' = SetTop(t, [f EXCEPT !.pc = "exit", !.status = st,
                                             !.raised = "CHECK_CALL"])
                 ELSE IF r.exc # ""
                 THEN stack' = SetTop(t, [f EXCEPT !.pc = "exit", !.status = st,
                                             !.xlat = IF translate THEN @ \cup {f.i} ELSE @,
                                             !.raised = "make_ret"])
                 ELSE stack' = SetTop(t, [f EXCEPT
                            !.pyargs = Append(@, r.obj),
                            !.xlat = IF translate THEN @ \cup {f.i} ELSE @,
                            !.i = f.i + 1,
                            !.pc = IF f.i + 1 = f.nargs THEN "call" ELSE "args"])
    /\ UNCHANGED <<gil, refcnt, handles, held, errSlot, budget, wrapped, failedWraps, codec, invoked, faults, wrappers, lookup, arange>>

\* one turn of the argument loop
TrampolineArg(t) ==
    /\ IsTop(t, "tvm_callback", "args")
    /\ LET f == Top(t)
           translate == IsHandleCode(f.tcodes[f.i])
       IN  \E translated \in (IF translate THEN PrimitiveOutcomes ELSE {TRUE}),
              st \in UnraisableStatus :
             LET a == IF translate THEN TVMCbArgToReturn(f.values[f.i], f.tcodes[f.i])
                      ELSE [value |-> f.values[f.i], tcode |-> f.tcodes[f.i]]
                 r == IF a.tcode # kTVMDLTensorHandle THEN make_ret(a.value, a.tcode)
                      ELSE RetOk(c_make_array(a.value.n, TRUE))
             IN  IF ~translated
                 THEN stack' = SetTop(t, [f EXCEPT !.pc = "exit", !.status = st,
                                             !.raised = "CHECK_CALL"])
                 ELSE IF r.exc # ""
                 THEN stack' = SetTop(t, [f EXCEPT !.pc = "exit", !.status = st,
                                             !.xlat = IF translate THEN @ \cup {f.i} ELSE @,
                                             !.raised = "make_ret"])
                 ELSE stack' = SetTop(t, [f EXCEPT
                            !.pyargs = Append(@, r.obj),
                            !.xlat = IF translate THEN @ \cup {f.i} ELSE @,
                            !.i = f.i + 1,
                            !.pc = IF f.i + 1 = f.nargs THEN "call" ELSE "args"])
    /\ UNCHANGED <<gil, refcnt, handles, held, errSlot, budget, wrapped, failedWraps, codec, invoked, faults, wrappers, lookup, arange>>

\* the foreign callable calls a function handle itself
CallableCalls(t) ==
    /\ IsTop(t, "tvm_callback", "call")
    /\ Top(t).sub.kind = "none"
    /\ budget > 0
    /\ \E c \in Calls : stack' = Push(t, FuncCall(c.h, c.args))
    /\ budget' = budget - 1
    /\ UNCHANGED <<gil, refcnt, handles, held, errSlot, wrapped, failedWraps, codec, invoked, faults, wrappers, lookup, arange>>

\* rv = local_pyfunc(*pyargs) raises: an Exception is caught and recorded
\* (status -1); any other BaseException leaves the function
CallableRaises(t) ==
    /\ IsTop(t, "tvm_callback", "call")
    /\ LET f == Top(t)
           err == IF f.sub.kind = "raised" THEN f.sub.msg ELSE Diag(t)
       IN  \E isException \in BOOLEAN, st \in UnraisableStatus :
             IF isException
             THEN /\ errSlot' = [errSlot EXCEPT ![t] = TVMAPISetLastPythonError(err)]
                  /\ stack' = SetTop(t, [f EXCEPT !.pc = "exit", !.status = -1,
                                            !.raised = "Exception", !.cbdiag = err])
             ELSE /\ errSlot' = errSlot
                  /\ stack' = SetTop(t, [f EXCEPT !.pc = "exit", !.status = st,
                                            !.raised = "BaseException", !.cbdiag = err])
    /\ UNCHANGED <<gil, refcnt, handles, held, budget, wrapped, failedWraps, codec, invoked, faults, wrappers, lookup, arange>>

\* the trampoline calling the set-return primitive for None as well
CallableReturns_SetNone(t) ==
    /\ IsTop(t, "tvm_callback", "call")
    /\ LET f == Top(t)
       IN  \/ stack' = SetTop(t, [f EXCEPT !.pc = "exit", !.status = 0,
                                      !.setret = @ + 1,
                                      !.produced = "none"])
           \/ \E rv \in RetVals :
                LET r == make_arg(rv, <<>>, NoWrap)
                    g == [f EXCEPT !.pc = "exit", !.produced = "value", !.rv = rv]
                IN  IF r.exc # ""
                    THEN stack' = SetTop(t, [g EXCEPT !.status = -1,
                                                !.raised = r.exc])
                    ELSE stack' = SetTop(t, [g EXCEPT !.status = 0,
                                                !.setret = @ + 1,
                                                !.ret_val = r.value,
                                                !.ret_tcode = r.tcode])
    /\ UNCHANGED <<gil, refcnt, handles, held, errSlot, budget, wrapped, failedWraps, codec, invoked, faults, wrappers, lookup, arange>>

\* rv = local_pyfunc(*pyargs) returns None, a tuple, or a single value
CallableReturns(t) ==
    /\ IsTop(t, "tvm_callback", "call")
    /\ LET f == Top(t)
       IN  \/ stack' = SetTop(t, [f EXCEPT !.pc = "exit", !.status = 0,
                                      !.produced = "none"])
           \/ /\ faults
              /\ \E st \in UnraisableStatus :
                    stack' = SetTop(t, [f EXCEPT !.pc = "exit", !.status = st,
                                           !.produced = "tuple",
                                           !.raised = "ValueError"])
           \/ \E rv \in RetVals, set \in PrimitiveOutcomes, st \in UnraisableStatus :
                LET r == make_arg(rv, <<>>, NoWrap)
                    g == [f EXCEPT !.pc = "exit", !.produced = "value", !.rv = rv]
                IN  IF r.exc # ""
                    THEN stack' = SetTop(t, [g EXCEPT !.status = st,
                                                !.raised = r.exc])
                    ELSE IF ~set
                    THEN stack' = SetTop(t, [g EXCEPT !.status = st,
                                                !.setret = @ + 1,
                                                !.raised = "CHECK_CALL"])
                    ELSE stack' = SetTop(t, [g EXCEPT !.status = 0,
                                                !.setret = @ + 1,
                                                !.ret_val = r.value,
                                                !.ret_tcode = r.tcode])
    /\ UNCHANGED <<gil, refcnt, handles, held, errSlot, budget, wrapped, failedWraps, codec, invoked, faults, wrappers, lookup, arange>>

\* what TVMFuncCall reports for the status the trampoline returned: the
\* PackedFunc throws the last error on a non-zero status
PackedCFuncStatus(ret) == IF ret # 0 THEN -1 ELSE 0

\* the trampoline returning without PyGILState_Release
TrampolineExit_NoRelease(t) ==
    /\ IsTop(t, "tvm_callback", "exit")
    /\ LET f == Top(t)
       IN  /\ refcnt' = refcnt - 1
           /\ gil' = gil
           /\ stack' = PopInto(t, [Below(t) EXCEPT
                    !.pc = "ret", !.status = PackedCFuncStatus(f.status),
                    !.ret_val = f.ret_val, !.ret_tcode = f.ret_tcode,
                    !.setret = f.setret, !.raised = f.raised, !.cbdiag = f.cbdiag,
                    !.produced = f.produced, !.rv = f.rv])
    /\ UNCHANGED <<handles, held, errSlot, budget, wrapped, failedWraps, codec, invoked, faults, wrappers, lookup, arange>>

\* the function returns: locals are released, then PyGILState_Release
TrampolineExit(t) ==
    /\ IsTop(t, "tvm_callback", "exit")
    /\ LET f == Top(t)
       IN  /\ refcnt' = refcnt - 1
           /\ gil' = IF f.ensured THEN "none" ELSE gil
           /\ stack' = PopInto(t, [Below(t) EXCEPT
                    !.pc = "ret", !.status = PackedCFuncStatus(f.status),
                    !.ret_val = f.ret_val, !.ret_tcode = f.ret_tcode,
                    !.setret = f.setret, !.raised = f.raised, !.cbdiag = f.cbdiag,
                    !.produced = f.produced, !.rv = f.rv])
    /\ UNCHANGED <<handles, held, errSlot, budget, wrapped, failedWraps, codec, invoked, faults, wrappers, lookup, arange>>

(***************************************************************************)
(* Native threads: a thread of the native runtime holds its own reference  *)
(* to a closure while it invokes it, and runs the finalizer itself when    *)
(* the reference it drops afterwards is the last one.                      *)
(***************************************************************************)
NativeInvokeWith(t, menu) ==
    /\ t \in NativeThreads
    /\ Depth(t) = 0
    /\ t \notin invoked
    /\ \E h \in HandleIds, raw \in menu :
          /\ handles[h].created
          /\ handles[h].refs > 0
          /\ handles' = [handles EXCEPT ![h].refs = @ + 1]
          /\ stack' = Push(t, [Frame("native", "body", h) EXCEPT
                !.values = [j \in 0 .. Len(raw) - 1 |-> raw[j + 1].value],
                !.tcodes = [j \in 0 .. Len(raw) - 1 |-> raw[j + 1].tcode],
                !.nargs = Len(raw)])
    /\ invoked' = invoked \cup {t}
    /\ UNCHANGED <<gil, refcnt, held, errSlot, budget, wrapped, failedWraps, codec, faults, wrappers, lookup, arange>>

NativeInvoke(t) == NativeInvokeWith(t, RawArgs)

\* the same with an argument of every type code
NativeInvokeArgs(t) == NativeInvokeWith(t, TrampolineArgs)

\* the invocation is over: the thread sees the status and drops its reference
NativeDone(t) ==
    /\ IsTop(t, "native", "ret")
    /\ Depth(t) = 1
    /\ LET f == Top(t)
       IN  stack' = SetTop(t, Done("unref", f.h,
                  [Result("status", PyNone, "",
                          IF f.status # 0 THEN errSlot[t].msg ELSE "", f.status) EXCEPT
                      !.ret_val = f.ret_val, !.ret_tcode = f.ret_tcode,
                      !.raised = f.raised, !.cbdiag = f.cbdiag, !.setret = f.setret,
                      !.produced = f.produced, !.rv = f.rv]))
    /\ UNCHANGED <<gil, refcnt, handles, held, errSlot, budget, wrapped, failedWraps, codec, invoked, faults, wrappers, lookup, arange>>

\* the thread drops its reference; the last reference runs the finalizer
NativeUnref(t) ==
    /\ IsTop(t, "done", "unref")
    /\ LET f == Top(t)
       IN  IF handles[f.h].refs = 1
           THEN /\ stack' = SetTop(t, Frame("finalize", "ensure", f.h))
                /\ handles' = handles
           ELSE /\ stack' = PopLast(t)
                /\ handles' = [handles EXCEPT ![f.h].refs = @ - 1]
    /\ UNCHANGED <<gil, refcnt, held, errSlot, budget, wrapped, failedWraps, codec, invoked, faults, wrappers, lookup, arange>>

\* top-level code moves on from a finished call
Forget(t) ==
    /\ IsTop(t, "done", "done")
    /\ stack' = PopLast(t)
    /\ UNCHANGED <<gil, refcnt, handles, held, errSlot, budget, wrapped, failedWraps, codec, invoked, faults, wrappers, lookup, arange>>

\* the finalizer entered without taking the lock
FinalizeEnsure_NoLock(t) ==
    /\ IsTop(t, "finalize", "ensure")
    /\ gil' = gil
    /\ stack' = SetTop(t, [Top(t) EXCEPT !.pc = "body"])
    /\ UNCHANGED <<refcnt, handles, held, errSlot, budget, wrapped, failedWraps, codec, invoked, faults, wrappers, lookup, arange>>

\* tvm_callback_finalize ... with gil, entered from a native thread
FinalizeEnsure(t) ==
    /\ IsTop(t, "finalize", "ensure")
    /\ gil \in {"none", t}
    /\ gil' = t
    /\ stack' = SetTop(t, [Top(t) EXCEPT !.ensured = (gil = "none"), !.pc = "body"])
    /\ UNCHANGED <<refcnt, handles, held, errSlot, budget, wrapped, failedWraps, codec, invoked, faults, wrappers, lookup, arange>>

FinalizeBody(t) ==
    /\ IsTop(t, "finalize", "body")
    /\ LET f == Top(t)
       IN  /\ refcnt' = tvm_callback_finalize(refcnt)
           /\ handles' = [handles EXCEPT ![f.h].refs = 0, ![f.h].fin = @ + 1]
           /\ gil' = IF f.ensured THEN "none" ELSE gil
           /\ stack' = PopLast(t)
    /\ UNCHANGED <<held, errSlot, budget, wrapped, failedWraps, codec, invoked, faults, wrappers, lookup, arange>>

(***************************************************************************)
(* Top-level foreign code: wrapping a callable, dropping a wrapper.        *)
(***************************************************************************)
\* convert_to_tvm_func(pyfunc) called by top-level code
Wrap(t) ==
    /\ t \in PyThreads
    /\ Depth(t) = 0
    /\ gil = "none"
    /\ ~wrapped
    /\ Len(wrappers) < MaxObjs
    /\ \E creates \in CreateOutcomes(handles) :
          LET w == convert_to_tvm_func(refcnt, handles, creates)
          IN  /\ refcnt' = w.refcnt
              /\ handles' = w.handles
              /\ IF w.exc = ""
                 THEN /\ held' = held \cup {w.chandle}
                      /\ wrappers' = Append(wrappers,
                              Wrapper(make_packed_func(w.chandle, FALSE), "convert"))
                      /\ UNCHANGED <<errSlot, failedWraps>>
                 ELSE /\ held' = held
                      /\ wrappers' = wrappers
                      /\ errSlot' = [errSlot EXCEPT ![t] = TVMAPISetLastError(CreateMsg)]
                      /\ failedWraps' = failedWraps + 1
    /\ wrapped' = TRUE
    /\ UNCHANGED <<gil, stack, budget, codec, invoked, faults, lookup, arange>>

\* whether some frame is a call made through the wrapper of handle h
InCall(h) == \E t \in Threads : \E k \in 1 .. Len(stack[t]) :
                stack[t][k].fn = "call" /\ stack[t][k].h = h

\* the program drops the last reference to a wrapper: __dealloc__
Dealloc(t) ==
    /\ t \in PyThreads
    /\ Depth(t) = 0
    /\ gil = "none"
    /\ \E i \in LiveWrappers :
          LET self == wrappers[i].obj
              r == PackedFuncDealloc(handles, refcnt, self.n, self.m)
          IN  /\ ~InCall(self.n)
              /\ wrappers' = [wrappers EXCEPT ![i].alive = FALSE,
                                              ![i].frees = @ + Len(r.freed)]
              /\ held' = {h \in held : \E j \in LiveWrappers \ {i} :
                                          /\ wrappers[j].origin = "convert"
                                          /\ wrappers[j].obj.n = h}
              /\ handles' = r.handles
              /\ refcnt' = r.refcnt
    /\ UNCHANGED <<gil, stack, errSlot, budget, wrapped, failedWraps, codec, invoked, faults, lookup, arange>>

\* top-level code looks a name up in the registry
GetGlobalFunc(t) ==
    /\ t \in PyThreads
    /\ Depth(t) = 0
    /\ gil = "none"
    /\ Len(wrappers) < MaxObjs
    /\ \E name \in LookupNames, allow_missing \in BOOLEAN, found \in PrimitiveOutcomes :
          LET r == _get_global_func(name, allow_missing, IF found THEN 0 ELSE -1)
          IN  /\ lookup' = r
              /\ wrappers' = IF r.kind = "wrapper"
                             THEN Append(wrappers, Wrapper(r.obj, "lookup"))
                             ELSE wrappers
              /\ errSlot' = IF r.exc = "TVMError"
                            THEN [errSlot EXCEPT ![t] = TVMAPISetLastError(NativeMsg)]
                            ELSE errSlot
    /\ UNCHANGED <<gil, stack, refcnt, handles, held, budget, wrapped, failedWraps, codec, invoked, faults, arange>>

(***************************************************************************)
(* relax.arange: the length InferStructInfoArange gives the result.        *)
(***************************************************************************)
\* tvm::floordiv: the quotient rounded towards minus infinity
floordiv(a, b) == IF b > 0 THEN a \div b ELSE (0 - a) \div (0 - b)

\* tvm::ceil of the quotient a / b, cast to an integer
ceildiv(a, b) == 0 - floordiv(0 - a, b)

ArangeIdle == [pc |-> "idle", is_int |-> TRUE, start |-> 0, end |-> 0, step |-> 1,
               num_elem |-> 0]

\* the calls of arange whose struct info is inferred: start, end and a
\* non-zero step, all of an integer dtype or not
ArangeCalls ==
    {[ArangeIdle EXCEPT !.pc = "infer", !.is_int = b, !.start = s, !.end = e, !.step = d] :
        b \in BOOLEAN, s \in 0 - MaxRange .. MaxRange, e \in 0 - MaxRange .. MaxRange,
        d \in (0 - MaxRange .. MaxRange) \ {0}}

(***************************************************************************)
(* The specification of the running system.                                *)
(***************************************************************************)
CodecIdle == [pc |-> "idle", args |-> <<>>, i |-> 0, values |-> <<>>,
              tcodes |-> <<>>, temp_args |-> <<>>, exc |-> "",
              ret_val |-> Uninit, ret_tcode |-> -1, obj |-> PyNone]

\* the state after the module is loaded: one callable, nothing wrapped
InitSystem ==
    /\ gil = "none"
    /\ stack = [t \in Threads |-> <<>>]
    /\ refcnt = 1
    /\ handles = [h \in HandleIds |-> [created |-> FALSE, refs |-> 0, fin |-> 0, inv |-> 0]]
    /\ held = {}
    /\ errSlot = [t \in Threads |-> NoError]
    /\ budget = MaxCalls
    /\ wrapped = FALSE
    /\ failedWraps = 0
    /\ invoked = {}
    /\ wrappers = <<>>
    /\ lookup = NoLookup

Init ==
    /\ InitSystem
    /\ codec = CodecIdle
    /\ faults = FALSE
    /\ arange = ArangeIdle

\* the same system with the rare outcomes included
FaultInit ==
    /\ InitSystem
    /\ codec = CodecIdle
    /\ faults = TRUE
    /\ arange = ArangeIdle

Step(t) ==
    \/ PyCallStart(t)
    \/ PackArg(t)
    \/ Nogil(t)
    \/ TVMFuncCall(t)
    \/ Regil(t)
    \/ CheckCall(t)
    \/ MakeRet(t)
    \/ NativeGlobal(t)
    \/ NativeLambda(t)
    \/ NativeReturn(t)
    \/ TrampolineEnsure(t)
    \/ TrampolineArg(t)
    \/ CallableCalls(t)
    \/ CallableRaises(t)
    \/ CallableReturns(t)
    \/ TrampolineExit(t)
    \/ NativeInvoke(t)
    \/ NativeDone(t)
    \/ NativeUnref(t)
    \/ Forget(t)
    \/ FinalizeEnsure(t)
    \/ FinalizeBody(t)
    \/ Wrap(t)
    \/ Dealloc(t)

Next == \E t \in Threads : Step(t)

Spec == Init /\ [][Next]_vars

FaultSpec == FaultInit /\ [][Next]_vars

\* The invoker on its own: one foreign thread calling registry functions.
InvokerStep(t) ==
    \/ PyCallArgs(t)
    \/ PackArg(t)
    \/ Nogil(t)
    \/ TVMFuncCall(t)
    \/ NativeGlobal(t)
    \/ NativeReturn(t)
    \/ Regil(t)
    \/ CheckCall(t)
    \/ MakeRet(t)
    \/ Forget(t)

InvokerNext == \E t \in PyThreads : InvokerStep(t)

InvokerSpec == Init /\ [][InvokerNext]_vars

\* every thread keeps being scheduled
LiveSpec == Init /\ [][Next]_vars /\ \A t \in Threads : WF_vars(Step(t))

\* The crossings on their own: calls, callbacks and invocations, with the
\* closures that passing a callable as an argument creates and releases
\* (top-level code neither wraps the callable nor keeps a wrapper).
ChainStep(t) ==
    \/ PyCallStart(t)
    \/ PackArg(t)
    \/ Nogil(t)
    \/ TVMFuncCall(t)
    \/ Regil(t)
    \/ CheckCall(t)
    \/ MakeRet(t)
    \/ NativeGlobal(t)
    \/ NativeLambda(t)
    \/ NativeReturn(t)
    \/ TrampolineEnsure(t)
    \/ TrampolineArg(t)
    \/ CallableCalls(t)
    \/ CallableRaises(t)
    \/ CallableReturns(t)
    \/ TrampolineExit(t)
    \/ NativeInvoke(t)
    \/ NativeDone(t)
    \/ NativeUnref(t)
    \/ Forget(t)
    \/ FinalizeEnsure(t)
    \/ FinalizeBody(t)

ChainNext == \E t \in Threads : ChainStep(t)

ChainSpec == Init /\ [][ChainNext]_vars /\ \A t \in Threads : WF_vars(ChainStep(t))

\* Foreign code and the objects it holds: lookups, wraps, calls through the
\* objects (a function passed to echo comes back as a new object) and
\* destructions.
RegistryStep(t) ==
    \/ GetGlobalFunc(t)
    \/ Wrap(t)
    \/ Dealloc(t)
    \/ PyCallWrapper(t)
    \/ PackArg(t)
    \/ Nogil(t)
    \/ TVMFuncCall(t)
    \/ Regil(t)
    \/ CheckCall(t)
    \/ MakeRet(t)
    \/ NativeGlobal(t)
    \/ NativeLambda(t)
    \/ NativeReturn(t)
    \/ TrampolineEnsure(t)
    \/ TrampolineArg(t)
    \/ CallableRaises(t)
    \/ CallableReturns(t)
    \/ TrampolineExit(t)
    \/ Forget(t)

RegistryNext == \E t \in PyThreads : RegistryStep(t)

\* relax.arange on its own: one inference per call.
ArangeInit ==
    /\ InitSystem
    /\ codec = CodecIdle
    /\ faults = FALSE
    /\ arange \in ArangeCalls

\* InferStructInfoArange: num_elem of the one-dimensional result
InferStructInfoArange ==
    /\ arange.pc = "infer"
    /\ arange' = [arange EXCEPT
            !.pc = "done",
            !.num_elem = IF arange.is_int
                         THEN floordiv(arange.end - arange.start + arange.step - 1,
                                       arange.step)
                         ELSE ceildiv(arange.end - arange.start, arange.step)]
    /\ UNCHANGED <<gil, stack, refcnt, handles, held, errSlot, budget, wrapped, failedWraps, codec, invoked, faults, wrappers, lookup>>

ArangeSpec == ArangeInit /\ [][InferStructInfoArange]_vars

\* ConstructorCall on its own: one foreign thread building objects.
ConstructorStep(t) ==
    \/ PyConstruct(t)
    \/ PackArg(t)
    \/ Nogil(t)
    \/ TVMFuncCall(t)
    \/ NativeGlobal(t)
    \/ NativeReturn(t)
    \/ Regil(t)
    \/ CheckCall(t)
    \/ ConstructorAssert(t)
    \/ Forget(t)

ConstructorNext == \E t \in PyThreads : ConstructorStep(t)

ConstructorSpec == Init /\ [][ConstructorNext]_vars

\* The trampoline on its own: a wrapped callable invoked by a native thread
\* with arguments of every type code, with every outcome of the callable
\* and of the primitives it uses.
TrampolineStep(t) ==
    \/ Wrap(t)
    \/ Dealloc(t)
    \/ NativeInvokeArgs(t)
    \/ NativeLambda(t)
    \/ TrampolineEnsure(t)
    \/ TrampolineArg(t)
    \/ CallableRaises(t)
    \/ CallableReturns(t)
    \/ TrampolineExit(t)
    \/ NativeDone(t)
    \/ NativeUnref(t)
    \/ FinalizeEnsure(t)
    \/ FinalizeBody(t)

TrampolineNext == \E t \in Threads : TrampolineStep(t)

TrampolineSpec == FaultInit /\ [][TrampolineNext]_vars

RegistrySpec == Init /\ [][RegistryNext]_vars

(***************************************************************************)
(* The codec on its own: one argument tuple is encoded slot by slot with   *)
(* make_arg, the echo function returns the last slot unchanged, and        *)
(* make_ret decodes what came back.                                        *)
(***************************************************************************)
\* sequences over alphabet of length at most n
RECURSIVE SeqsUpTo(_, _)
SeqsUpTo(alphabet, n) ==
    IF n = 0 THEN {<<>>}
    ELSE LET shorter == SeqsUpTo(alphabet, n - 1)
         IN  shorter \cup {Append(s, c) : s \in shorter, c \in alphabet}

\* code points of 'h' and of e-acute (two bytes in UTF-8)
CodePoints == {104, 233}
ByteVals == {0, 200}

\* values of the non-handle kinds
PlainValues ==
    {PyInt(0, n) : n \in {-3, 0, 1, 5}}
    \cup {PyFloat(x) : x \in {0, 2}}
    \cup {PyBool(b) : b \in {0, 1}}
    \cup {PyNone}
    \cup {PyStr(s) : s \in SeqsUpTo(CodePoints, MaxStrLen)}
    \cup {PyBytes(s) : s \in SeqsUpTo(ByteVals, MaxStrLen)}
    \cup {PyByteArray(s) : s \in SeqsUpTo(ByteVals, MaxStrLen)}
    \cup {PyDevice(dt, id) : dt \in {1, 2}, id \in {0, 1}}

\* values of the other branches of make_arg (the callable branch creates a
\* closure and belongs to the call machine)
OtherValues ==
    { PyInt(1, 0), PyNumber(2), PyDataType(<<104>>), PyObjectBase(9),
      PyNDArray(9, 0), PyNDArray(9, 1), PyNativeString(9, <<104>>),
      PyCompat(9, kTVMExtBegin + 1), PyList(<<>>), PyModule(9),
      PyPackedFunc(9, 1), PyVoidP(9), PyRValueRef(9), PySet }

CodecInputs == {<<v>> : v \in PlainValues \cup OtherValues} \cup {EchoScenario}

CodecInit ==
    /\ InitSystem
    /\ codec \in {[CodecIdle EXCEPT !.pc = "pack", !.args = a] : a \in CodecInputs}
    /\ faults = FALSE
    /\ arange = ArangeIdle

\* make_arg(args[i], &values[i], &tcodes[i], temp_args)
CodecMakeArg ==
    /\ codec.pc = "pack"
    /\ LET r == make_arg(codec.args[codec.i + 1], codec.temp_args, NoWrap)
       IN  IF r.exc # ""
           THEN codec' = [codec EXCEPT !.pc = "raised", !.exc = r.exc]
           ELSE codec' = [codec EXCEPT
                    !.values = [j \in 0 .. codec.i |->
                                   IF j = codec.i THEN r.value ELSE codec.values[j]],
                    !.tcodes = [j \in 0 .. codec.i |->
                                   IF j = codec.i THEN r.tcode ELSE codec.tcodes[j]],
                    !.temp_args = r.temp_args,
                    !.i = codec.i + 1,
                    !.pc = IF codec.i + 1 = Len(codec.args) THEN "call" ELSE "pack"]
    /\ UNCHANGED <<gil, stack, refcnt, handles, held, errSlot, budget, wrapped, failedWraps, invoked, faults, wrappers, lookup, arange>>

\* the echo function returns its last argument unchanged
CodecEcho ==
    /\ codec.pc = "call"
    /\ LET r == EchoRet(codec.values, codec.tcodes, codec.i)
       IN  codec' = [codec EXCEPT !.pc = "ret", !.ret_val = r.value,
                                  !.ret_tcode = r.tcode]
    /\ UNCHANGED <<gil, stack, refcnt, handles, held, errSlot, budget, wrapped, failedWraps, invoked, faults, wrappers, lookup, arange>>

\* make_ret(ret_val, ret_tcode)
CodecMakeRet ==
    /\ codec.pc = "ret"
    /\ LET r == make_ret(codec.ret_val, codec.ret_tcode)
       IN  codec' = [codec EXCEPT !.pc = IF r.exc # "" THEN "raised" ELSE "done",
                                  !.exc = r.exc, !.obj = r.obj]
    /\ UNCHANGED <<gil, stack, refcnt, handles, held, errSlot, budget, wrapped, failedWraps, invoked, faults, wrappers, lookup, arange>>

CodecNext == CodecMakeArg \/ CodecEcho \/ CodecMakeRet

CodecSpec == CodecInit /\ [][CodecNext]_vars

(***************************************************************************)
(* Properties of the codec.                                                *)
(***************************************************************************)
\* the value kind of a foreign value
KindOf(v) ==
    IF "bool" \in v.isa THEN "Bool"
    ELSE IF "Integral" \in v.isa THEN "Int"
    ELSE IF "float" \in v.isa THEN "Float"
    ELSE IF "NoneType" \in v.isa THEN "Null"
    ELSE IF "str" \in v.isa THEN "Str"
    ELSE IF v.isa \cap {"bytes", "bytearray"} # {} THEN "Bytes"
    ELSE IF "Device" \in v.isa THEN "Device"
    ELSE "Other"

\* a == b as the foreign language evaluates it: buffers by content,
\* everything else by value
PyEq(a, b) ==
    IF KindOf(a) = "Bytes" /\ KindOf(b) = "Bytes" THEN a.s = b.s
    ELSE a.n = b.n /\ a.m = b.m /\ a.s = b.s

\* the slots make_arg has written so far
EncodedSlots == 0 .. codec.i - 1

\* C1: make_arg tags a value Bool exactly when it is a boolean (a boolean is
\* never tagged Int, a non-boolean integral never Bool); make_ret yields a
\* boolean for a Bool-tagged value and an integer for an Int-tagged one; the
\* echo of (Int 5, Str "hi", Bool true) decodes to the boolean true.
C1_BoolTagging ==
    /\ \A j \in EncodedSlots :
          LET v == codec.args[j + 1]
          IN  /\ (codec.tcodes[j] = kTVMArgBool) <=> ("bool" \in v.isa)
              /\ "bool" \in v.isa => codec.tcodes[j] # kInt
              /\ ("Integral" \in v.isa /\ "bool" \notin v.isa) =>
                    codec.tcodes[j] # kTVMArgBool
    /\ codec.pc = "done" =>
          /\ codec.ret_tcode = kTVMArgBool => KindOf(codec.obj) = "Bool"
          /\ codec.ret_tcode = kInt => KindOf(codec.obj) = "Int"
    /\ (codec.pc = "done" /\ codec.args = EchoScenario) =>
          /\ codec.ret_tcode = kTVMArgBool
          /\ codec.obj = PyBool(1)

\* the echo scenario has run to its end and produced the boolean true
C1_Witness ==
    /\ codec.pc = "done"
    /\ codec.args = EchoScenario
    /\ codec.tcodes = [j \in 0 .. 2 |-> <<kInt, kTVMStr, kTVMArgBool>>[j + 1]]
    /\ codec.obj = PyBool(1)

\* the argument the decoded result is compared with
LastArg == codec.args[Len(codec.args)]

\* C2: for every value v of a non-handle kind (Int, Float, Bool, Null, Str,
\* Bytes, Device) make_arg succeeds and make_ret of what it produced is a
\* value equal to v and of the same kind.
C2_RoundTrip ==
    LastArg \in PlainValues =>
        /\ codec.pc # "raised"
        /\ codec.pc = "done" =>
              /\ PyEq(codec.obj, LastArg)
              /\ KindOf(codec.obj) = KindOf(LastArg)

\* a bytes object with a zero byte and a str with a two-byte code point have
\* made the round trip
C2_Witness ==
    /\ codec.pc = "done"
    /\ \/ /\ codec.args = <<PyBytes(<<0, 200>>)>>
          /\ codec.obj = PyByteArray(<<0, 200>>)
       \/ /\ codec.args = <<PyStr(<<233, 104>>)>>
          /\ codec.obj = PyStr(<<233, 104>>)

(***************************************************************************)
(* Properties of the call invoker.                                         *)
(***************************************************************************)
\* the frames on the stacks, as <<thread, position>>
FrameAt == UNION {{<<t, k>> : k \in 1 .. Len(stack[t])} : t \in Threads}

CallFrames == {p \in FrameAt : stack[p[1]][p[2]].fn = "call"}

\* the results of finished calls that are still at hand
Results == {stack[p[1]][p[2]].sub : p \in FrameAt} \ {NoResult}

CallResults == {r \in Results : r.kind \in {"raised", "returned"}}

\* slot (value, tcode) holds the encoding of arg
Encodes(arg, value, tcode) ==
    IF WrapsCallable(arg)
    THEN tcode = kTVMPackedFuncHandle /\ value.member = "v_handle" /\ value.n \in HandleIds
    ELSE LET r == make_arg(arg, <<>>, NoWrap)
         IN  r.exc = "" /\ r.value = value /\ r.tcode = tcode

\* C3: the path is chosen by the argument count alone; the fast path uses
\* the fixed three-slot arrays, writes no slot >= 3 and sizes no buffer; the
\* general path uses buffers of length exactly the argument count; the
\* primitive receives len(args) and slots 0..n-1 hold the arguments in order.
C3_PathSelection ==
    \A p \in CallFrames :
        LET f == stack[p[1]][p[2]]
            n == Len(f.args)
        IN  /\ f.nargs = n
            /\ (f.path = "FuncCall3") <=> (n <= 3)
            /\ (f.path = "FuncCall") <=> (n >= 4)
            /\ f.path = "FuncCall3" =>
                  /\ DOMAIN f.values = 0 .. 2
                  /\ DOMAIN f.tcodes = 0 .. 2
                  /\ f.written \subseteq 0 .. 2
                  /\ ~f.resized
            /\ f.path = "FuncCall" =>
                  /\ f.resized
                  /\ DOMAIN f.values = 0 .. n - 1
                  /\ DOMAIN f.tcodes = 0 .. n - 1
            /\ f.issued =>
                  /\ f.primN = n
                  /\ \A j \in 0 .. n - 1 : Encodes(f.args[j + 1], f.values[j], f.tcodes[j])
            /\ (f.pc = "wait" /\ p[2] < Len(stack[p[1]])) =>
                  LET g == stack[p[1]][p[2] + 1]
                  IN  /\ g.fn = "native"
                      /\ g.nargs = n
                      /\ \A j \in 0 .. n - 1 :
                            Encodes(f.args[j + 1], g.values[j], g.tcodes[j])

\* a call with four or more arguments has reached the primitive through the
\* general path
C3_Witness ==
    \E p \in CallFrames :
        LET f == stack[p[1]][p[2]]
        IN  /\ f.path = "FuncCall"
            /\ f.nargs >= 4
            /\ f.pc = "wait"
            /\ f.primN = f.nargs
            /\ f.tcodes = [j \in 0 .. f.nargs - 1 |-> kInt]

\* C4: every argument is encoded before the primitive is issued, and a call
\* whose encoding failed never issues the primitive.
C4_EncodeBeforeIssue ==
    /\ \A p \in CallFrames :
          LET f == stack[p[1]][p[2]]
          IN  /\ f.issued => (f.i = f.nargs /\ f.written = 0 .. f.nargs - 1)
              /\ f.pc \in {"nogil", "TVMFuncCall", "wait", "gil", "CHECK_CALL", "make_ret"} =>
                    f.i = f.nargs
              /\ f.pc = "pack" => ~f.issued
    /\ \A r \in CallResults : r.raisedIn = "make_arg" => ~r.issued

\* a call whose second argument could not be encoded has ended with the
\* TypeError and without the primitive
C4_Witness ==
    \E r \in CallResults :
        /\ r.raisedIn = "make_arg"
        /\ r.exc = "TypeError"
        /\ ~r.issued

\* C5: a non-zero status of the primitive makes the invoker raise at the
\* call site with the message of the native side unchanged, and __call__
\* never decodes or returns a result for that call.
C5_NonZeroStatusRaises ==
    /\ \A r \in CallResults :
          r.prim # 0 =>
            /\ r.kind = "raised"
            /\ r.raisedIn = "CHECK_CALL"
            /\ r.msg = r.primMsg
            /\ r.obj = PyNone
    /\ \A p \in CallFrames :
          stack[p[1]][p[2]].pc = "make_ret" => stack[p[1]][p[2]].status = 0

\* the call of the failing native function has raised the native message
C5_Witness ==
    \E r \in CallResults :
        /\ r.prim # 0
        /\ r.kind = "raised"
        /\ r.msg = NativeMsg

(***************************************************************************)
(* Properties of the trampoline, of closure lifetime and of the lock.      *)
(***************************************************************************)
TrampolineFrames == {p \in FrameAt : stack[p[1]][p[2]].fn = "tvm_callback"}

\* the callable of this invocation raised
CallableRaised(x) == x.raised \in {"Exception", "BaseException"}

\* C6: when the callable raises, tvm_callback returns a non-zero status,
\* never calls the set-return primitive, and records the diagnostic in the
\* error slot; the call site raises with that diagnostic unchanged.
C6_CallableFailureReported ==
    /\ \A p \in TrampolineFrames :
          LET f == stack[p[1]][p[2]]
          IN  (f.pc = "exit" /\ CallableRaised(f)) =>
                /\ f.status # 0
                /\ f.setret = 0
                /\ errSlot[p[1]] = TVMAPISetLastPythonError(f.cbdiag)
    /\ \A r \in Results :
          CallableRaised(r) =>
            /\ r.status # 0
            /\ r.setret = 0
            /\ r.kind = "raised" => r.msg = r.cbdiag
            /\ r.kind # "returned"

\* closures that exist and whose finalizer has not run
LiveClosures == {h \in HandleIds : handles[h].created /\ handles[h].fin = 0}

\* trampoline invocations that hold their local reference to the callable
ActiveBodies == {p \in TrampolineFrames : stack[p[1]][p[2]].pc \in {"args", "call", "exit"}}

\* C7: the callable's reference count is its value before wrapping, plus
\* one per closure not yet finalized, plus one per running invocation (and
\* the reference a failed creation keeps); the finalizer of a closure runs
\* at most once.  So after wrap, N invocations and one free it is back to
\* the value before wrapping, also for N = 0.
C7_RefcountBalanced ==
    /\ refcnt = 1 + Cardinality(LiveClosures) + Cardinality(ActiveBodies) + failedWraps
    /\ \A h \in HandleIds :
          /\ handles[h].fin <= 1
          /\ handles[h].fin = 1 => (handles[h].created /\ handles[h].refs = 0)
          /\ (handles[h].created /\ handles[h].fin = 0) => handles[h].refs >= 1

\* a closure was wrapped, invoked twice and freed; the count is back to 1
C7_Witness ==
    /\ \E h \in HandleIds :
          /\ handles[h].created
          /\ handles[h].inv >= 2
          /\ handles[h].fin = 1
    /\ failedWraps = 0
    /\ \A t \in Threads : Depth(t) = 0
    /\ refcnt = 1

\* thread t is executing the body of the trampoline
InBody(t) ==
    /\ Depth(t) > 0
    /\ Top(t).fn = "tvm_callback"
    /\ Top(t).pc \in {"args", "call", "exit"}

\* thread t has just left the trampoline or a call: it runs native code
InNative(t) == Depth(t) > 0 /\ Top(t).fn = "native"

\* C8: at most one thread executes a trampoline body; the trampoline takes
\* the lock before its first step and holds it until it returns; every
\* return path (with a value, without, failure) gives it up.
C8_TrampolineExclusive ==
    /\ \A t \in Threads : InBody(t) => gil = t
    /\ Cardinality({t \in Threads : InBody(t)}) <= 1
    /\ \A t \in Threads :
          (InNative(t) /\ Top(t).pc = "ret") => gil # t

\* one thread is in the body while the other waits at the entry
C8_Witness ==
    \E t \in Threads, u \in Threads :
        /\ t # u
        /\ InBody(t)
        /\ Top(t).pc = "call"
        /\ IsTop(u, "tvm_callback", "ensure")

\* C9: the calling thread gives up the lock after the last argument is
\* encoded and before the primitive is entered, does not hold it while the
\* primitive runs, and holds it again before the status is checked and the
\* result decoded.
C9_LockAroundPrimitive ==
    \A t \in Threads :
        Depth(t) > 0 =>
          LET f == Top(t)
          IN  /\ (f.fn = "call" /\ f.pc \in {"pack", "nogil", "CHECK_CALL", "make_ret"}) =>
                    gil = t
              /\ (f.fn = "call" /\ f.pc = "nogil") => f.i = f.nargs
              /\ (f.fn = "call" /\ f.pc \in {"TVMFuncCall", "gil"}) => gil # t
              /\ (f.fn = "call" /\ f.pc \in {"TVMFuncCall", "gil", "CHECK_CALL", "make_ret"}) =>
                    f.i = f.nargs
              /\ f.fn = "native" => gil # t

\* the primitive runs on one thread while the other holds the lock
C9_Witness ==
    \E t \in Threads, u \in Threads :
        /\ Depth(t) > 1
        /\ Top(t).fn = "native"
        /\ Below(t).fn = "call"
        /\ Below(t).pc = "wait"
        /\ gil = u
        /\ u # t

\* the frame on top of thread t's stack is one that runs under the lock
HoldsLock(t) ==
    /\ Depth(t) > 0
    /\ \/ Top(t).fn = "call" /\ Top(t).pc \in {"pack", "nogil", "CHECK_CALL", "make_ret"}
       \/ Top(t).fn = "tvm_callback" /\ Top(t).pc \in {"args", "call", "exit"}
       \/ Top(t).fn = "finalize" /\ Top(t).pc = "body"

\* every acquisition of the lock is undone when its crossing ends
LockPaired == \A t \in Threads : (gil = t) <=> HoldsLock(t)

\* C10: a nested chain of crossings, with other threads making calls, runs
\* to completion: every trampoline entry gets the lock, acquisitions and
\* releases are paired per crossing, and no thread stays stuck.
C10_NestedChainsComplete ==
    /\ []LockPaired
    /\ \A t \in Threads : IsTop(t, "tvm_callback", "ensure") ~> InBody(t)
    /\ \A t \in Threads : (Depth(t) > 0) ~> (Depth(t) = 0)

\* foreign -> native -> foreign -> native on one thread while the other
\* thread is in a crossing of its own
C10_Witness ==
    \E t \in Threads, u \in Threads :
        /\ t # u
        /\ Depth(t) >= 5
        /\ stack[t][1].fn = "call"
        /\ stack[t][2].fn = "native"
        /\ stack[t][3].fn = "tvm_callback"
        /\ stack[t][4].fn = "call"
        /\ stack[t][5].fn = "native"
        /\ Depth(u) > 0
        /\ Top(u).fn = "tvm_callback"

(***************************************************************************)
(* Properties of closure ownership.                                        *)
(***************************************************************************)
\* the finalizer of closure h runs in this step
FinalizerRuns(h) == handles'[h].fin = handles[h].fin + 1

\* a trampoline invocation returns in this step and gives up its local
\* reference to the callable
LocalReleased == \E t \in Threads :
                    IsTop(t, "tvm_callback", "exit") /\ stack'[t] # stack[t]

\* The thread that takes the step holds the lock: a thread inside a crossing
\* is the lock's holder; top-level foreign code that drops a wrapper finds
\* the lock free and runs the destructor as one step under it.
ActsUnderLock ==
    \/ \E t \in Threads : stack'[t] # stack[t] /\ gil = t
    \/ /\ held' # held
       /\ stack' = stack
       /\ gil = "none"

\* C11: the reference a closure holds on the callable is dropped by
\* tvm_callback_finalize alone (every other decrement is a trampoline giving
\* up its own local reference), and the thread that runs the finalizer holds
\* the lock when it decrements.
C11_ReleaseUnderLock ==
    [][ /\ (refcnt' < refcnt) => (LocalReleased \/ \E h \in HandleIds : FinalizerRuns(h))
        /\ \A h \in HandleIds : handles'[h].fin # handles[h].fin =>
              /\ FinalizerRuns(h)
              /\ ActsUnderLock ]_vars

\* a native thread is in the finalizer, holding the lock, about to drop the
\* last reference, while the foreign thread waits to take the lock back
C11_Witness ==
    \E t \in NativeThreads, u \in PyThreads :
        /\ IsTop(t, "finalize", "body")
        /\ gil = t
        /\ handles[Top(t).h].refs = 1
        /\ handles[Top(t).h].fin = 0
        /\ IsTop(u, "call", "gil")

\* C12: an object made by _get_global_func is marked global and its
\* destruction never calls the free primitive, whatever lookups, calls and
\* destructions happen; an object made by convert_to_tvm_func or decoded
\* from a PackedFunction-tagged value is local, and the free primitive gets
\* its handle exactly once: when the object is destroyed.
C12_GlobalNeverFreed ==
    \A i \in 1 .. Len(wrappers) :
        LET w == wrappers[i]
        IN  /\ w.origin = "lookup" =>
                  /\ w.obj.m # 0
                  /\ w.frees = 0
                  /\ \E name \in DOMAIN Registry : Registry[name] = w.obj.n
            /\ w.origin \in {"convert", "decoded"} =>
                  /\ w.obj.m = 0
                  /\ w.frees = IF w.alive THEN 0 ELSE 1

\* a looked-up function was called with a wrapped callable, the function it
\* returned was decoded, and all three objects have been destroyed
C12_Witness ==
    /\ \A i \in 1 .. Len(wrappers) : ~wrappers[i].alive
    /\ \E i, j, k \in 1 .. Len(wrappers) :
          /\ wrappers[i].origin = "lookup" /\ wrappers[i].frees = 0
          /\ wrappers[j].origin = "convert" /\ wrappers[j].frees = 1
          /\ wrappers[k].origin = "decoded" /\ wrappers[k].frees = 1
          /\ wrappers[k].obj.n = wrappers[j].obj.n
    /\ \A h \in HandleIds : handles[h].created => handles[h].fin = 1
    /\ refcnt = 1

\* C16: _get_global_func on a name the registry does not have returns None
\* when allow_missing is true and raises the unknown-function error, whose
\* message names the requested symbol, when it is false; on a name the
\* registry has it returns an object around the registry's handle whatever
\* allow_missing is.
C16_LookupPolicy ==
    (lookup.kind # "" /\ lookup.exc # "TVMError") =>
        IF lookup.name \in DOMAIN Registry
        THEN /\ lookup.kind = "wrapper"
             /\ "PackedFuncBase" \in lookup.obj.isa
             /\ lookup.obj.n = Registry[lookup.name]
        ELSE IF lookup.allow_missing
        THEN /\ lookup.kind = "None"
             /\ lookup.obj = PyNone
             /\ lookup.exc = ""
        ELSE /\ lookup.kind = "raised"
             /\ lookup.exc = "ValueError"
             /\ lookup.name \in lookup.names.symbols

\* after a successful lookup, a lookup of an unregistered name without
\* allow_missing has raised
C16_Witness ==
    /\ lookup.kind = "raised"
    /\ lookup.name = "nope"
    /\ ~lookup.allow_missing
    /\ lookup.names = SymbolInfo("nope")
    /\ \E i \in 1 .. Len(wrappers) : wrappers[i].origin = "lookup"

(***************************************************************************)
(* Properties of the trampoline's arguments and return value.              *)
(***************************************************************************)
\* the codes the claim lists for the in-place translation
TranslatedCodes ==
    {kTVMObjectHandle, kTVMPackedFuncHandle, kTVMModuleHandle, kTVMNDArrayHandle,
     kTVMObjectRefArg} \cup (kTVMExtBegin .. kTVMExtBegin + 2)

\* what the trampoline makes of a value and its code
DecodeArg(value, tcode) ==
    IF tcode = kTVMDLTensorHandle THEN RetOk(c_make_array(value.n, TRUE))
    ELSE make_ret(value, tcode)

\* C20: the trampoline translates an incoming argument in place exactly when
\* its code is Object, PackedFunction, Module, NDArray, ObjectRefSlot or an
\* extension code, and does so before decoding it; arguments of every other
\* code are decoded from the incoming value as it is.
C20_TranslateHandleArgs ==
    \A p \in TrampolineFrames :
        LET f == stack[p[1]][p[2]]
        IN  /\ \A j \in f.xlat : j \in 0 .. f.nargs - 1
            /\ \A j \in 0 .. Len(f.pyargs) - 1 :
                  /\ (j \in f.xlat) <=> (f.tcodes[j] \in TranslatedCodes)
                  /\ f.pyargs[j + 1] =
                        IF f.tcodes[j] \in TranslatedCodes
                        THEN LET a == TVMCbArgToReturn(f.values[j], f.tcodes[j])
                             IN  DecodeArg(a.value, a.tcode).obj
                        ELSE DecodeArg(f.values[j], f.tcodes[j]).obj
            /\ f.raised = "make_ret" =>
                  /\ (f.i \in f.xlat) <=> (f.tcodes[f.i] \in TranslatedCodes)
                  /\ f.tcodes[f.i] \notin TranslatedCodes =>
                        DecodeArg(f.values[f.i], f.tcodes[f.i]).exc # ""

\* the callable is running with (Int 7, reference slot of object 9): the
\* second argument was translated and reached it as the object, the first
\* was decoded as it came
C20_Witness ==
    \E p \in TrampolineFrames :
        LET f == stack[p[1]][p[2]]
        IN  /\ f.pc = "call"
            /\ f.tcodes = [j \in 0 .. 1 |-> <<kInt, kTVMObjectRefArg>>[j + 1]]
            /\ f.pyargs = <<PyInt(0, 7), PyObjectBase(9)>>
            /\ f.xlat = {1}

\* trampoline invocations that are returning, and what native callers saw of
\* invocations that are over
Returning == {stack[p[1]][p[2]] : p \in {q \in TrampolineFrames :
                                            stack[q[1]][q[2]].pc = "exit"}}

Observed == {r \in Results : r.kind = "status"}

\* C13: when the callable returns a single value that is not None, the
\* trampoline encodes it with make_arg, calls the set-return primitive once
\* with the tagged value and returns 0; when it returns None the primitive is
\* not called, the return slot stays null and the status is 0.  (An
\* invocation in which make_arg or the primitive itself fails is not a
\* successful return.)
C13_ReturnValueSet ==
    /\ \A f \in Returning :
          /\ f.produced = "value" =>
                LET r == make_arg(f.rv, <<>>, NoWrap)
                IN  /\ r.exc = "" => f.setret = 1
                    /\ r.exc # "" => f.setret = 0
                    /\ f.raised = "" =>
                          /\ f.status = 0
                          /\ f.ret_val = r.value
                          /\ f.ret_tcode = r.tcode
          /\ f.produced = "none" =>
                /\ f.setret = 0
                /\ f.status = 0
                /\ f.ret_val = Null
                /\ f.ret_tcode = kTVMNullptr
    /\ \A r \in Observed :
          /\ (r.produced = "value" /\ r.raised = "") =>
                /\ r.status = 0
                /\ r.setret = 1
                /\ r.ret_tcode = make_arg(r.rv, <<>>, NoWrap).tcode
                /\ r.ret_val = make_arg(r.rv, <<>>, NoWrap).value
          /\ r.produced = "none" =>
                /\ r.status = 0
                /\ r.setret = 0
                /\ r.ret_tcode = kTVMNullptr

\* a native caller got status 0 and the string "hi" from one invocation
C13_Witness ==
    \E r \in Observed :
        /\ r.produced = "value"
        /\ r.rv = PyStr(<<104, 105>>)
        /\ r.status = 0
        /\ r.setret = 1
        /\ r.ret_tcode = kTVMStr
        /\ r.ret_val = TVMValue("v_str", 0, 0, <<104, 105>>)

\* C14: when the callable returns a tuple the invocation is rejected: the
\* set-return primitive is not called, nothing is put in the return slot,
\* and the native caller does not see a zero status.
C14_TupleRejected ==
    /\ \A f \in Returning :
          f.produced = "tuple" =>
            /\ f.setret = 0
            /\ f.ret_val = Null
            /\ f.ret_tcode = kTVMNullptr
            /\ f.status # 0
    /\ \A r \in Observed :
          r.produced = "tuple" =>
            /\ r.setret = 0
            /\ r.ret_tcode = kTVMNullptr
            /\ r.status # 0

(***************************************************************************)
(* Properties of ConstructorCall.                                          *)
(***************************************************************************)
\* ConstructorCalls whose constructor returned with status 0
Constructed == {r \in CallResults : r.ctor /\ r.issued /\ r.prim = 0}

\* C15: when the constructor returns a code other than the expected one,
\* ConstructorCall fails with an error that names both codes and leaves the
\* caller's handle slot alone; when the codes agree it stores the returned
\* handle as it is and returns.
C15_ConstructorMismatch ==
    \A r \in Constructed :
        IF r.ret_tcode # r.type_code
        THEN /\ r.kind = "raised"
             /\ {r.type_code, r.ret_tcode} \subseteq r.names.codes
             /\ ~r.handle.set
        ELSE /\ r.kind = "returned"
             /\ r.handle = [set |-> TRUE, v |-> r.ret_val.n]

(***************************************************************************)
(* Properties of make_arg on a value it does not handle.                   *)
(***************************************************************************)
\* the kinds the isinstance chain of make_arg has a branch for
RecognizedKinds ==
    {"ObjectBase", "NDArrayBase", "PyNativeObject", "_TVM_COMPATS", "bool",
     "Integral", "float", "str", "NoneType", "Number", "DataType", "Device",
     "bytes", "bytearray", "string_types", "list", "tuple", "dict",
     "_CLASS_OBJECT_GENERIC", "_CLASS_MODULE", "PackedFuncBase", "c_void_p",
     "ObjectRValueRef", "callable"}

Unrecognized(arg) == arg.isa \cap RecognizedKinds = {}

\* the calls whose packing stopped at an argument of no recognized kind
StoppedAtUnrecognized ==
    {r \in CallResults : r.i < Len(r.args) /\ Unrecognized(r.args[r.i + 1])}

\* C17 as stated: make_arg on a value of no recognized kind fails with an
\* error that identifies the position of the argument and its declared kind,
\* and the destination slot is not written.
C17_UnsupportedArgument ==
    \A r \in StoppedAtUnrecognized :
        /\ r.kind = "raised"
        /\ r.names.types = {r.args[r.i + 1].isa}
        /\ r.i \in r.names.positions
        /\ r.i \notin r.written

\* C17 amended: make_arg on a value of no recognized kind fails with a
\* TypeError that identifies the declared kind of the value and no position;
\* the destination slot is not written, no argument of an unrecognized kind
\* is ever packed, and the primitive is not issued.
C17_UnsupportedKindNamed ==
    /\ \A r \in StoppedAtUnrecognized :
          /\ r.kind = "raised"
          /\ r.exc = "TypeError"
          /\ r.raisedIn = "make_arg"
          /\ r.names.types = {r.args[r.i + 1].isa}
          /\ r.names.positions = {}
          /\ r.written = 0 .. r.i - 1
          /\ ~r.issued
    /\ \A r \in CallResults : \A j \in r.written : ~Unrecognized(r.args[j + 1])

\* a call whose second argument is a set has ended with the TypeError, the
\* first slot written and the second not
C17_Witness ==
    \E r \in StoppedAtUnrecognized :
        /\ r.i = 1
        /\ r.exc = "TypeError"
        /\ r.names.types = {{"set"}}
        /\ r.written = {0}

(***************************************************************************)
(* Properties of the result of __call__.                                   *)
(***************************************************************************)
\* the calls of __call__ whose primitive returned status 0
Answered == {r \in CallResults : ~r.ctor /\ r.issued /\ r.prim = 0}

\* C18 as stated: in __call__ a result is passed through the translate step
\* before make_ret decodes it exactly when its code is Object,
\* PackedFunction, Module, NDArray, ObjectRefSlot or an extension code;
\* results of the other codes are decoded without that step.
C18_ResultTranslated ==
    \A r \in Answered : (r.xlat # {}) <=> (r.ret_tcode \in TranslatedCodes)

\* C18 amended: __call__ passes no result through the translate step; the
\* result of every code is what make_ret makes of the value and the code
\* the primitive returned, and make_ret's failure is the failure of the call.
C18_ResultDecodedAsReturned ==
    \A r \in Answered :
        LET d == make_ret(r.ret_val, r.ret_tcode)
        IN  /\ r.xlat = {}
            /\ IF d.exc = ""
               THEN r.kind = "returned" /\ r.obj = d.obj
               ELSE r.kind = "raised" /\ r.exc = d.exc /\ r.raisedIn = "make_ret"

\* echo has returned the object handle 9 it was passed, and __call__ has
\* handed the caller the object decoded from it, with no translate step
C18_Witness ==
    \E r \in Answered :
        /\ r.ret_tcode = kTVMObjectHandle
        /\ r.kind = "returned"
        /\ r.obj = make_ret(TVMValue("v_handle", 9, 0, <<>>), kTVMObjectHandle).obj
        /\ r.xlat = {}

(***************************************************************************)
(* Properties of make_ret on a tensor view.                                *)
(***************************************************************************)
\* make_ret has run on a value with the tensor-view code
TensorViewDecoded ==
    codec.ret_tcode = kTVMDLTensorHandle /\ codec.pc \in {"done", "raised"}

\* C19 as stated: make_ret on a value tagged as a tensor view decodes it
\* into an owning array wrapper and never rejects it as an unknown code.
C19_TensorViewOwned ==
    TensorViewDecoded =>
        /\ codec.pc = "done"
        /\ codec.obj = PyNDArray(codec.ret_val.n, 0)

\* C19 amended: make_ret has no branch for the tensor-view code: it raises
\* the ValueError that names the code; the owning array wrapper is what it
\* makes of the NDArray code.
C19_TensorViewUnhandled ==
    /\ TensorViewDecoded =>
          /\ codec.pc = "raised"
          /\ codec.exc = "ValueError"
          /\ make_ret(codec.ret_val, codec.ret_tcode).names.codes = {kTVMDLTensorHandle}
    /\ (codec.ret_tcode = kTVMNDArrayHandle /\ codec.pc \in {"done", "raised"}) =>
          /\ codec.pc = "done"
          /\ codec.obj = PyNDArray(codec.ret_val.n, 0)

\* the view of array 9 was encoded with the tensor-view code, echoed, and
\* make_ret has raised on it
C19_Witness ==
    /\ codec.args = <<PyNDArray(9, 1)>>
    /\ TensorViewDecoded
    /\ codec.pc = "raised"
    /\ codec.exc = "ValueError"

(***************************************************************************)
(* Properties of the argument loop of the trampoline.                      *)
(***************************************************************************)
\* C21: in a trampoline invocation an argument tagged as a tensor view is
\* decoded into a borrowed view (is_view set) and never through make_ret;
\* every other argument is decoded through make_ret; the list handed to the
\* callable has the length and the order of the incoming array.
C21_ArgsDecoded ==
    \A p \in TrampolineFrames :
        LET f == stack[p[1]][p[2]]
        IN  /\ Len(f.pyargs) = f.i
            /\ f.pc = "call" => Len(f.pyargs) = f.nargs
            /\ \A j \in 0 .. Len(f.pyargs) - 1 :
                  IF f.tcodes[j] = kTVMDLTensorHandle
                  THEN f.pyargs[j + 1] = PyNDArray(f.values[j].n, 1)
                  ELSE LET a == IF IsHandleCode(f.tcodes[j])
                                THEN TVMCbArgToReturn(f.values[j], f.tcodes[j])
                                ELSE [value |-> f.values[j], tcode |-> f.tcodes[j]]
                           d == make_ret(a.value, a.tcode)
                       IN  d.exc = "" /\ f.pyargs[j + 1] = d.obj
            /\ f.raised = "make_ret" => f.tcodes[f.i] # kTVMDLTensorHandle

\* the callable is running with an array and a tensor view: the first
\* reached it as an owning array, the second as a view, in that order
C21_Witness ==
    \E p \in TrampolineFrames :
        LET f == stack[p[1]][p[2]]
        IN  /\ f.pc = "call"
            /\ f.nargs = 2
            /\ f.tcodes[0] = kTVMNDArrayHandle
            /\ f.tcodes[1] = kTVMDLTensorHandle
            /\ f.pyargs = <<PyNDArray(f.values[0].n, 0), PyNDArray(f.values[1].n, 1)>>

(***************************************************************************)
(* Properties of the order of the encoder's tests.                         *)
(***************************************************************************)
\* values that match no test of the chain before callable(arg)
OnlyCallable(arg) ==
    "callable" \in arg.isa /\ arg.isa \cap (RecognizedKinds \ {"callable"}) = {}

\* the closures in a keep-alive list
ClosureTemps(temp_args) ==
    {k \in 1 .. Len(temp_args) : temp_args[k].kind = "PackedFunc"}

\* C22: a value that is an object handle, an array handle or a native-object
\* wrapper is encoded by the handle it has, whatever else it is; a
\* PackedFuncBase is encoded by its function handle and is not wrapped; a
\* closure is made exactly for the values that match no earlier kind and
\* are callable.
C22_HandlesBeforeGeneric ==
    \A p \in CallFrames :
        LET f == stack[p[1]][p[2]]
        IN  /\ \A j \in f.written :
                  LET arg == f.args[j + 1]
                      slot == Raw(f.values[j], f.tcodes[j])
                      byHandle(code) == slot = Raw(TVMValue("v_handle", arg.n, 0, <<>>), code)
                  IN  IF "ObjectBase" \in arg.isa THEN byHandle(kTVMObjectHandle)
                      ELSE IF "NDArrayBase" \in arg.isa
                      THEN byHandle(IF arg.m = 0 THEN kTVMNDArrayHandle
                                    ELSE kTVMDLTensorHandle)
                      ELSE IF "PyNativeObject" \in arg.isa THEN byHandle(kTVMObjectHandle)
                      ELSE IF "PackedFuncBase" \in arg.isa
                              /\ arg.isa \cap (RecognizedKinds \ {"PackedFuncBase", "callable"}) = {}
                      THEN byHandle(kTVMPackedFuncHandle)
                      ELSE TRUE
            \* as long as the keep-alive list is there
            /\ f.pc # "make_ret" =>
                  Cardinality(ClosureTemps(f.temp_args)) =
                     Cardinality({j \in f.written : OnlyCallable(f.args[j + 1])})

\* sum was passed by its wrapper together with a plain callable: the first
\* slot holds the handle of sum, and the one closure made is the callable's
C22_Witness ==
    \E p \in CallFrames :
        LET f == stack[p[1]][p[2]]
        IN  /\ f.args = <<PyPackedFunc(hSum, 1), PyFunction(1)>>
            /\ f.written = {0, 1}
            /\ f.values[0].n = hSum
            /\ f.tcodes[0] = kTVMPackedFuncHandle
            /\ Cardinality(ClosureTemps(f.temp_args)) = 1
            /\ f.values[1].n \in HandleIds

(***************************************************************************)
(* Properties of the keep-alive list.                                      *)
(***************************************************************************)
\* the entries of a keep-alive list
Kept(temp_args) == {temp_args[k] : k \in 1 .. Len(temp_args)}

\* the temporary storage the encoding of arg in (value, tcode) refers to
StorageOf(arg, value, tcode) ==
    IF tcode = kTVMStr THEN {Temp("tstr", 0, value.s)}
    ELSE IF tcode = kTVMBytes
    THEN {Temp("TVMByteArray", value.n, value.s)}
         \cup (IF "bytes" \in arg.isa THEN {Temp("bytearray", 0, arg.s)} ELSE {})
    ELSE IF tcode = kTVMObjectHandle /\ arg.isa \cap {"ObjectBase", "PyNativeObject"} = {}
    THEN {Temp("Object", value.n, <<>>)}
    ELSE IF tcode = kTVMPackedFuncHandle /\ OnlyCallable(arg)
    THEN {Temp("PackedFunc", value.n, <<>>)}
    ELSE {}

\* C23: the temporary storage an encoded argument refers to is in the
\* keep-alive list of the call from the moment the argument is encoded until
\* the primitive has returned (a closure among it is alive all that time),
\* and the list is gone once the call has returned.
C23_KeepAlive ==
    \A p \in CallFrames :
        LET f == stack[p[1]][p[2]]
        IN  IF f.pc = "make_ret" THEN f.temp_args = <<>>
            ELSE /\ \A j \in f.written :
                       StorageOf(f.args[j + 1], f.values[j], f.tcodes[j])
                          \subseteq Kept(f.temp_args)
                 /\ \A x \in Kept(f.temp_args) :
                       x.kind = "PackedFunc" =>
                          handles[x.n].created /\ handles[x.n].refs >= 1

\* the primitive is running on a str, a bytes object, None and a float: the
\* encoded str, the copy of the bytes and its descriptor are kept
C23_Witness ==
    \E p \in CallFrames :
        LET f == stack[p[1]][p[2]]
        IN  /\ f.pc = "wait"
            /\ f.args = <<PyStr(<<104>>), PyBytes(<<0>>), PyNone, PyFloat(2)>>
            /\ f.temp_args = <<Temp("tstr", 0, <<104>>), Temp("bytearray", 0, <<0>>),
                               Temp("TVMByteArray", 1, <<0>>)>>

(***************************************************************************)
(* Properties of the status the trampoline returns.                        *)
(***************************************************************************)
\* C24: every failure inside a trampoline invocation (in the translate
\* step, in decoding an argument, in the callable, in the check for several
\* return values, in encoding the return value, in the set-return primitive)
\* ends the invocation with a non-zero status; none is reported as status 0.
C24_FailureStatus ==
    /\ \A f \in Returning : f.raised # "" => f.status # 0
    /\ \A r \in Observed : r.raised # "" => r.status # 0

(***************************************************************************)
(* Properties of a wrap attempt that fails.                                *)
(***************************************************************************)
\* C25: when the creation of the handle fails inside convert_to_tvm_func the
\* increment taken before it is undone, so the callable's reference count
\* is its value before any wrapping plus one per closure not yet finalized
\* plus one per running invocation, however many wrap attempts have failed.
C25_FailedWrapUndone ==
    refcnt = 1 + Cardinality(LiveClosures) + Cardinality(ActiveBodies)

(***************************************************************************)
(* Properties of the length of arange.                                     *)
(***************************************************************************)
\* the number of elements of start, start + step, ... that lie before end
\* in the direction of step
RECURSIVE ArangeCount(_, _, _)
ArangeCount(start, end, step) ==
    IF (step > 0 /\ start < end) \/ (step < 0 /\ start > end)
    THEN 1 + ArangeCount(start + step, end, step)
    ELSE 0

\* C26: for integer start, end and step # 0 the inferred length equals the
\* number of elements of the sequence that lie before end in the direction
\* of step, for a negative step as for a positive one (stated for the calls
\* that have an element at all).
C26_ArangeLength ==
    (arange.pc = "done" /\ arange.is_int
        /\ ArangeCount(arange.start, arange.end, arange.step) > 0) =>
       arange.num_elem = ArangeCount(arange.start, arange.end, arange.step)

====
